---- MODULE Spec2Model ----
(***************************************************************************)
(* rdscom: framed request/response messaging for embedded systems.         *)
(* A model of the frame codec (Message, MessageHeader), the loopback       *)
(* channel (DummyChannel) and the exchange engine (CommunicationInterface) *)
(* of the single-header library.                                           *)
(***************************************************************************)
EXTENDS Integers, Sequences, FiniteSets, TLC

\* ------------------------------------------------------------------------
\* Bounds of the model
\* ------------------------------------------------------------------------

\* the fake clock stops advancing at this value
MaxTime == 36

\* the channel buffer holds at most this many bytes before a peer write
MaxChannelBytes == 12

\* on the loopback channel the user sends a message while fewer than this many
\* are waiting to be received (retransmissions by tick() are never limited)
MaxBurst == 2

\* at most this many callbacks are registered
MaxCallbacks == 2

\* at most this many addField calls are made on one prototype
MaxFields == 3

\* messages are constructed without an explicit number while the counter is
\* within this distance of 0
MaxMessages == 3

\* check() is called with at most this many results
MaxResults == 3

\* ------------------------------------------------------------------------
\* UTILITIES
\* ------------------------------------------------------------------------

\* a std::string is the sequence of its characters; '\0' and '\n'
NUL == 0
NewLine == 10

\* std::string::c_str() as the callee reads it: the characters before the
\* first NUL
c_str(str) ==
    LET nuls == {i \in 1..Len(str) : str[i] = NUL}
        first == CHOOSE i \in nuls : \A j \in nuls : i <= j
    IN  IF nuls = {} THEN str ELSE SubSeq(str, 1, first - 1)

\* the loop of check() over errors: errorMessage
RECURSIVE JoinErrors(_)
JoinErrors(errors) ==
    IF errors = <<>> THEN <<>>
    ELSE (IF Len(Head(errors)) = 0 THEN <<>>
          ELSE Head(errors) \o <<NewLine>>) \o JoinErrors(Tail(errors))

\* check(onError, functions...): what it returns, and the argument of each
\* call it makes to onError
checkCallPerError(functions) ==
    LET error == \E i \in 1..Len(functions) : functions[i].isError
        errors == [i \in 1..Len(functions) |-> functions[i].error]
        failed == SelectSeq(functions, LAMBDA f : f.isError)
    IN  IF error
        THEN [returns |-> TRUE,
              onError |-> [i \in 1..Len(failed) |->
                             c_str(JoinErrors(<<failed[i].error>>))]]
        ELSE [returns |-> FALSE, onError |-> <<>>]
check(functions) ==
    LET error == \E i \in 1..Len(functions) : functions[i].isError
        errors == [i \in 1..Len(functions) |-> functions[i].error]
    IN  IF error
        THEN [returns |-> TRUE, onError |-> <<c_str(JoinErrors(errors))>>]
        ELSE [returns |-> FALSE, onError |-> <<>>]

\* ------------------------------------------------------------------------
\* DATA FIELDS & PROTOTYPES
\* ------------------------------------------------------------------------

\* enum DataFieldType
UINT8 == 0
UINT16 == 1
UINT32 == 2
UINT64 == 3
INT8 == 4
INT16 == 5
INT32 == 6
INT64 == 7
FLOAT == 8
DOUBLE == 9
BOOL == 10
BYTE == 11
NONE == 12

\* DataField::getSizeOfType
getSizeOfType(type) ==
    IF type \in {UINT8, INT8, BOOL, BYTE} THEN 1
    ELSE IF type \in {UINT16, INT16} THEN 2
    ELSE IF type \in {UINT32, INT32, FLOAT} THEN 4
    ELSE IF type \in {UINT64, INT64, DOUBLE} THEN 8
    ELSE 0

\* DataField(offset, type)
DataField(offset, type) == [offset |-> offset, type |-> type]

RESERVED_ERROR_PROTOTYPE == 80

\* the empty std::map
EmptyMap == [k \in {} |-> 0]

\* std::map operator[] assignment: insert or overwrite
MapPut(map, key, val) ==
    [k \in (DOMAIN map) \cup {key} |-> IF k = key THEN val ELSE map[k]]

\* std::map::erase(key)
MapErase(map, key) == [k \in (DOMAIN map) \ {key} |-> map[k]]

\* DataPrototype(identifier): no fields, size 0
DataPrototype(identifier) ==
    [identifier |-> identifier, size |-> 0, fields |-> EmptyMap]

\* DataPrototype(): the identifier is the reserved one
DefaultDataPrototype == DataPrototype(RESERVED_ERROR_PROTOTYPE)

\* DataPrototype::numFields
numFields(proto) == Cardinality(DOMAIN proto.fields)

\* DataPrototype::addField
addFieldKeepOldWidth(proto, name, type) ==
    [identifier |-> proto.identifier,
     size       |-> proto.size + getSizeOfType(type),
     fields     |-> MapPut(proto.fields, name, DataField(proto.size, type))]
addFieldOffsetAfter(proto, name, type) ==
    LET size1 == IF name \in DOMAIN proto.fields
                 THEN proto.size - getSizeOfType(proto.fields[name].type)
                 ELSE proto.size
    IN  [identifier |-> proto.identifier,
         size       |-> size1 + getSizeOfType(type),
         fields     |-> MapPut(proto.fields, name,
                               DataField(size1 + getSizeOfType(type), type))]
addField(proto, name, type) ==
    LET size1 == IF name \in DOMAIN proto.fields
                 THEN proto.size - getSizeOfType(proto.fields[name].type)
                 ELSE proto.size
    IN  [identifier |-> proto.identifier,
         size       |-> size1 + getSizeOfType(type),
         fields     |-> MapPut(proto.fields, name, DataField(size1, type))]

\* a vector of n zero bytes (std::vector::resize on an empty vector)
Zeros(n) == [i \in 1..n |-> 0]

\* DataBuffer(type): zeroed backing store of the prototype's size
DataBuffer(type) == [type |-> type, data |-> Zeros(type.size)]

\* DataBuffer(): default prototype, no bytes
DefaultDataBuffer == [type |-> DefaultDataPrototype, data |-> <<>>]

\* Result<T>::ok / Result<T>::errorResult; value() of an error result is the
\* default-constructed T, which the caller passes as dflt
Ok(value) == [isError |-> FALSE, value |-> value, error |-> ""]
ErrorResult(dflt, errorMessage) ==
    [isError |-> TRUE, value |-> dflt, error |-> errorMessage]

\* DataBuffer::createFromPrototype
createFromPrototypeAnySize(type, data) ==
    IF type.identifier = RESERVED_ERROR_PROTOTYPE
    THEN ErrorResult(DefaultDataBuffer, "Invalid prototype")
    ELSE Ok([type |-> type, data |-> data])
createFromPrototype(type, data) ==
    IF type.identifier = RESERVED_ERROR_PROTOTYPE
    THEN ErrorResult(DefaultDataBuffer, "Invalid prototype")
    ELSE IF Len(data) # type.size
    THEN ErrorResult(DefaultDataBuffer, "Data size mismatch")
    ELSE Ok([type |-> type, data |-> data])

\* DataPrototype::findField
findField(proto, name) ==
    IF name \notin DOMAIN proto.fields
    THEN ErrorResult(DataField(0, NONE), "Field not found")
    ELSE Ok(proto.fields[name])

\* std::memcpy(&value, _data.data() + offset, n): the n bytes copied out of the
\* backing store; a byte that lies outside the store is whatever the build
\* finds there (junk)
ReadBytes(data, offset, n, junk) ==
    [i \in 1..n |-> IF offset + i <= Len(data) THEN data[offset + i] ELSE junk]

\* std::memcpy(_data.data() + offset, &value, sizeof(T)): the backing store
\* afterwards (bytes written outside the store do not land in it)
WriteBytes(data, offset, value) ==
    [i \in 1..Len(data) |->
        IF i > offset /\ i <= offset + Len(value) THEN value[i - offset]
        ELSE data[i]]

\* DataBuffer::getField<T>, T given by sizeof(T); a value is the sequence of
\* its bytes.  The value of an error result is never initialised.
getField(buffer, name, sizeofT, junk) ==
    LET fieldRes == findField(buffer.type, name)
        field == fieldRes.value
    IN  IF fieldRes.isError
        THEN ErrorResult([i \in 1..sizeofT |-> junk], fieldRes.error)
        ELSE IF sizeofT # getSizeOfType(field.type)
        THEN ErrorResult([i \in 1..sizeofT |-> junk], "Field size mismatch")
        ELSE Ok(ReadBytes(buffer.data, field.offset, sizeofT, junk))

\* DataBuffer::setField<T>: the result it returns and the buffer afterwards
setField(buffer, name, value, junk) ==
    LET fieldRes == findField(buffer.type, name)
        field == fieldRes.value
    IN  IF fieldRes.isError
        THEN [result |-> ErrorResult([i \in 1..Len(value) |-> junk],
                                     fieldRes.error),
              buffer |-> buffer]
        ELSE IF Len(value) # getSizeOfType(field.type)
        THEN [result |-> ErrorResult([i \in 1..Len(value) |-> junk],
                                     "Field size mismatch"),
              buffer |-> buffer]
        ELSE [result |-> Ok(value),
              buffer |-> [type |-> buffer.type,
                          data |-> WriteBytes(buffer.data, field.offset, value)]]

\* ------------------------------------------------------------------------
\* MESSAGES
\* ------------------------------------------------------------------------

\* enum MessageType
REQUEST == 0
RESPONSE == 1
ERROR == 2

\* MessageHeader(type, prototypeHandle, messageNumber)
MessageHeader(type, prototypeHandle, messageNumber) ==
    [type |-> type, prototypeHandle |-> prototypeHandle,
     messageNumber |-> messageNumber]

\* MessageHeader()
DefaultMessageHeader == MessageHeader(REQUEST, 0, 0)

\* Message(header, data)
Message(header, data) == [header |-> header, buffer |-> data]

\* Message()
DefaultMessage == Message(DefaultMessageHeader, DefaultDataBuffer)

\* Message(type, proto, messageNumber)
MessageOfPrototype(type, proto, messageNumber) ==
    Message(MessageHeader(type, proto.identifier, messageNumber),
            DataBuffer(proto))

\* Message(type, data, messageNumber)
MessageOfBuffer(type, data, messageNumber) ==
    Message(MessageHeader(type, data.type.identifier, messageNumber), data)

\* std::uint16_t arithmetic
ToUint16NoWrap(x) == x
ToUint16(x) == x % 65536

\* Message(type, data) and Message(type, proto): the number is taken from the
\* static counter _messageNumber (counter), which is then incremented
NewMessageOfBuffer(type, data, counter) ==
    [message |-> MessageOfBuffer(type, data, counter),
     counter |-> ToUint16(counter + 1)]
NewMessageOfPrototype(type, proto, counter) ==
    [message |-> MessageOfPrototype(type, proto, counter),
     counter |-> ToUint16(counter + 1)]

\* Message::createResponse(request, data): the response and the static
\* counter after the call
createResponseFresh(requestMessage, data, counter) ==
    NewMessageOfBuffer(RESPONSE, data, counter)
createResponse(requestMessage, data, counter) ==
    [message |-> MessageOfBuffer(RESPONSE, data,
                                 requestMessage.header.messageNumber),
     counter |-> counter]

\* Message::createResposne(request, proto)
createResposne(requestMessage, proto, counter) ==
    [message |-> MessageOfPrototype(RESPONSE, proto,
                                    requestMessage.header.messageNumber),
     counter |-> counter]

\* Message::_preamble, 'R' 'D' 'S'
_preamble == <<82, 68, 83>>
_preambleSize == 3
\* Message::_endSequence, 'E' 'N' 'D'
_endSequence == <<69, 78, 68>>
_endSequenceSize == 3
\* sizeof(MessageHeader): one byte type, one byte handle, two bytes number
sizeofMessageHeader == 4
_completeHeaderSize == _preambleSize + sizeofMessageHeader
_completeEndSequenceSize == _endSequenceSize

\* MessageHeader::insertSerialized: the four bytes it pushes
insertSerializedLowFirst(header) ==
    << header.type % 256,
       header.prototypeHandle,
       header.messageNumber % 256,
       (header.messageNumber \div 256) % 256 >>
insertSerialized(header) ==
    << header.type % 256,
       header.prototypeHandle,
       (header.messageNumber \div 256) % 256,
       header.messageNumber % 256 >>

\* MessageHeader::fromSerialized
MessageHeaderFromSerializedNoShift(serialized) ==
    IF Len(serialized) < 4
    THEN ErrorResult(DefaultMessageHeader, "Message too short")
    ELSE Ok(MessageHeader(serialized[1], serialized[2],
                          (serialized[3] + serialized[4]) % 65536))
MessageHeaderFromSerialized(serialized) ==
    IF Len(serialized) < 4
    THEN ErrorResult(DefaultMessageHeader, "Message too short")
    ELSE Ok(MessageHeader(serialized[1], serialized[2],
                          (serialized[3] * 256 + serialized[4]) % 65536))

\* Message::serialize
serialize(message) ==
    _preamble \o insertSerialized(message.header)
              \o message.buffer.data \o _endSequence

\* Message::getPrototypeHandleFromBuffer
getPrototypeHandleAfterKind(serialized) ==
    IF Len(serialized) <= _preambleSize + 1
    THEN RESERVED_ERROR_PROTOTYPE
    ELSE serialized[_preambleSize + 2]
getPrototypeHandleFromBuffer(serialized) ==
    IF Len(serialized) <= _preambleSize
    THEN RESERVED_ERROR_PROTOTYPE
    ELSE serialized[_preambleSize + 1]

\* std::vector(v.begin() + first, v.begin() + last): the bytes [first, last)
\* by 0-based offsets; an offset past the end of v is read all the same and
\* yields whatever the build finds there (junk)
Slice(v, first, last, junk) ==
    [i \in 1..(last - first) |->
        IF first + i <= Len(v) THEN v[first + i] ELSE junk]

\* Message::fromSerialized reads bytes [3, 7) for the header without a length
\* check of its own; this is the condition under which that read is in range
HeaderReadInRange(serialized) ==
    Len(serialized) >= _preambleSize + sizeofMessageHeader

\* Message::fromSerialized
fromSerialized(proto, serialized, junk) ==
    IF proto.identifier = RESERVED_ERROR_PROTOTYPE
    THEN ErrorResult(DefaultMessage, "Invalid prototype")
    ELSE IF Len(serialized) <= _preambleSize
    THEN ErrorResult(DefaultMessage, "Message too short")
    ELSE IF \E i \in 1.._preambleSize : serialized[i] # _preamble[i]
    THEN ErrorResult(DefaultMessage, "Invalid preamble")
    ELSE IF \E i \in 1.._endSequenceSize :
              serialized[Len(serialized) - _endSequenceSize + i] # _endSequence[i]
    THEN ErrorResult(DefaultMessage, "Invalid end sequence")
    ELSE LET headerRes == MessageHeaderFromSerialized(
                 Slice(serialized, _preambleSize,
                       _preambleSize + sizeofMessageHeader, junk))
             expectedSize == _completeHeaderSize + proto.size
                                 + _completeEndSequenceSize
             bufferRes == createFromPrototype(proto,
                 Slice(serialized, _completeHeaderSize,
                       Len(serialized) - _completeEndSequenceSize, junk))
         IN  IF headerRes.isError
             THEN ErrorResult(DefaultMessage, "Failed to create message header")
             ELSE IF Len(serialized) # expectedSize
             THEN ErrorResult(DefaultMessage, "Message size mismatch")
             ELSE IF bufferRes.isError
             THEN ErrorResult(DefaultMessage, "Failed to create data buffer")
             ELSE Ok(Message(headerRes.value, bufferRes.value))

\* the 0-based indices of serialized that Message::fromSerialized reads
fromSerializedReads(proto, serialized) ==
    LET size == Len(serialized)
        badPreamble == {i \in 0..(_preambleSize - 1) :
                          serialized[i + 1] # _preamble[i + 1]}
        badEnd == {i \in 0..(_endSequenceSize - 1) :
                     serialized[size - _endSequenceSize + i + 1]
                        # _endSequence[i + 1]}
        First(S) == CHOOSE x \in S : \A y \in S : x <= y
        header == _preambleSize..(_preambleSize + sizeofMessageHeader - 1)
        ends == {size - _endSequenceSize + i : i \in 0..(_endSequenceSize - 1)}
        payload == _completeHeaderSize..(size - _completeEndSequenceSize - 1)
    IN  IF proto.identifier = RESERVED_ERROR_PROTOTYPE THEN {}
        ELSE IF size <= _preambleSize THEN {}
        ELSE IF badPreamble # {} THEN 0..First(badPreamble)
        ELSE IF badEnd # {}
        THEN 0..(_preambleSize - 1)
                \cup {size - _endSequenceSize + i : i \in 0..First(badEnd)}
        ELSE IF size # _completeHeaderSize + proto.size
                           + _completeEndSequenceSize
        THEN 0..(_preambleSize - 1) \cup ends \cup header
        ELSE 0..(_preambleSize - 1) \cup ends \cup header \cup payload

\* ------------------------------------------------------------------------
\* COMMUNICATION CHANNELS & COMMUNICATION: state
\* ------------------------------------------------------------------------

VARIABLES
    _prototypes,       \* CommunicationInterface: identifier -> DataPrototype
    _rxCallbacks,      \* CommunicationInterface: key -> list of callbacks
    _txCallbacks,
    _errCallbacks,
    _acksNeeded,       \* message number -> SentMessage
    _lastMessageTime,
    _options,          \* CommunicationInterfaceOptions (maxRetries, retryTimeout)
    now,               \* the value _options.timeFunction() returns
    _data,             \* the channel's buffer: what the next receive() returns
    loopback,          \* TRUE: the channel is a DummyChannel, send() appends
                       \* to _data; FALSE: send() goes out to a peer
    outbox,            \* DummyChannel: the messages passed to send() since the
                       \* last receive(), in order (empty on other channels)
    op,                \* the last operation performed
    received,          \* the bytes receive() returned in the last operation
    called,            \* the callbacks invoked in the last operation, in order
    sent,              \* the messages given to _channel.send in the last operation
    txCount,           \* per message number: channel writes of the request since
                       \* its ack-required sendMessage (that one included)
    lastTx,            \* per message number: clock value of its last channel write
    codecMessage,      \* frame codec: a message,
    codecBytes,        \*   its serialized bytes,
    codecResult,       \*   and the result of parsing them back
    userProto,         \* user code: a DataPrototype,
    userFields,        \*   the addField calls made on it, in order,
    userBuffer,        \*   a DataBuffer,
    userCall,          \*   the arguments of the last call on them
    userResult,        \*   and the Result that call returned
    _messageNumber,    \* Message::_messageNumber, the process-wide counter
    issued,            \*   the numbers it has given to messages, in order
    request,           \* user code: the last Message constructed
    response           \*   and the last response built for it

engineVars == << _prototypes, _rxCallbacks, _txCallbacks, _errCallbacks,
                 _acksNeeded, _lastMessageTime, _options, now, _data, loopback, outbox,
                 op, received, called, sent, txCount, lastTx >>
engineVarsButOp == << _prototypes, _rxCallbacks, _txCallbacks, _errCallbacks,
                      _acksNeeded, _lastMessageTime, _options, now, _data,
                      loopback, outbox, received, called, sent, txCount, lastTx >>
codecVars == << codecMessage, codecBytes, codecResult >>
dataVars == << userProto, userFields, userBuffer, userCall, userResult >>
messageVars == << _messageNumber, issued, request, response >>
vars == << _prototypes, _rxCallbacks, _txCallbacks, _errCallbacks,
           _acksNeeded, _lastMessageTime, _options, now, _data, loopback, outbox,
           op, received, called, sent, txCount, lastTx,
           codecMessage, codecBytes, codecResult,
           userProto, userFields, userBuffer, userCall, userResult,
           _messageNumber, issued, request, response >>

\* ------------------------------------------------------------------------
\* Inputs of the model
\* ------------------------------------------------------------------------

\* Times are counted in units of 65536 ms: the clock, retryTimeout and the
\* clock steps are multiples of 65536 ms, so that the 32-bit range of
\* SentMessage::timeSent (2^32 ms) is 65536 units.
Uint32Range == 65536

\* static_cast to std::uint32_t of a time
ToUint32(t) == t % Uint32Range

\* static_cast to std::uint8_t
ToUint8Narrow(x) == x % 2
ToUint8(x) == x % 256

RetryTimeoutChoice == 10
MaxRetriesChoices == {0, 2}
ClockStarts == {0}
ClockSteps == {6, 12}

\* the prototypes the user builds (as in the examples: id, then addField)
Proto0 == addField(DataPrototype(0), "id", INT8)
Proto1 == addField(addField(DataPrototype(1), "make", BYTE), "model", BYTE)
Proto3 == addField(DataPrototype(3), "age", UINT8)
UserProtos == {Proto0, Proto1, Proto3}
ProtoIds == {p.identifier : p \in UserProtos}

MessageTypes == {REQUEST, RESPONSE, ERROR}
MessageNumbers == {0, 258}

\* the user's callbacks
Callbacks == {"A", "B"}

\* SentMessage{message, timeSent, numRetries}
SentMessage(message, timeSent, numRetries) ==
    [message |-> message, timeSent |-> timeSent, numRetries |-> numRetries]

\* ------------------------------------------------------------------------
\* COMMUNICATION: operations
\* ------------------------------------------------------------------------

\* CommunicationInterface::getMap, as the name of the map it returns
getMap(msgType) ==
    IF msgType = REQUEST THEN "rx"
    ELSE IF msgType = RESPONSE THEN "tx"
    ELSE IF msgType = ERROR THEN "err"
    ELSE "rx"

\* map[type].push_back(callback), creating the list when the key is new
PushCallback(map, type, callback) ==
    MapPut(map, type,
           IF type \in DOMAIN map THEN Append(map[type], callback)
                                  ELSE <<callback>>)

\* the callbacks registered so far, in all three maps
CallbacksIn(map) ==
    UNION {{map[k][i] : i \in 1..Len(map[k])} : k \in DOMAIN map}
RegisteredCallbacks ==
    CallbacksIn(_rxCallbacks) \cup CallbacksIn(_txCallbacks)
        \cup CallbacksIn(_errCallbacks)

\* message.serialize() of each message of a list, one after the other
RECURSIVE serializeAll(_)
serializeAll(messages) ==
    IF messages = <<>> THEN <<>>
    ELSE serialize(Head(messages)) \o serializeAll(Tail(messages))

\* DummyChannel::send / a peer-connected channel's send: the new buffer
ChannelSendOverwrite(data, messages) ==
    IF loopback THEN serializeAll(messages) ELSE data
ChannelSend(data, messages) ==
    IF loopback THEN data \o serializeAll(messages) ELSE data

\* CommunicationInterface::addCallback (each of the user's callbacks is
\* registered at most once, and at most MaxCallbacks of them)
addCallback(type, msgType, callback) ==
    /\ callback \notin RegisteredCallbacks
    /\ Cardinality(RegisteredCallbacks) < MaxCallbacks
    /\ _rxCallbacks' = IF getMap(msgType) = "rx"
                       THEN PushCallback(_rxCallbacks, type, callback)
                       ELSE _rxCallbacks
    /\ _txCallbacks' = IF getMap(msgType) = "tx"
                       THEN PushCallback(_txCallbacks, type, callback)
                       ELSE _txCallbacks
    /\ _errCallbacks' = IF getMap(msgType) = "err"
                        THEN PushCallback(_errCallbacks, type, callback)
                        ELSE _errCallbacks
    /\ op' = "addCallback"
    /\ received' = <<>> /\ called' = <<>> /\ sent' = <<>>
    /\ UNCHANGED << _prototypes, _acksNeeded, _lastMessageTime, _options, now,
                    _data, loopback, outbox, txCount, lastTx, codecVars, dataVars, messageVars >>

\* CommunicationInterface::getPrototype
getPrototype(identifier) ==
    IF identifier \notin DOMAIN _prototypes
    THEN ErrorResult(DefaultDataPrototype, "Prototype not found")
    ELSE Ok(_prototypes[identifier])

\* CommunicationInterface::addPrototype
addPrototypeUnchecked(proto) ==
    /\ _prototypes' = MapPut(_prototypes, proto.identifier, proto)
    /\ op' = "addPrototype"
    /\ received' = <<>> /\ called' = <<>> /\ sent' = <<>>
    /\ UNCHANGED << _rxCallbacks, _txCallbacks, _errCallbacks, _acksNeeded,
                    _lastMessageTime, _options, now, _data, loopback, outbox,
                    txCount, lastTx, codecVars, dataVars, messageVars >>
addPrototype(proto) ==
    /\ _prototypes' = IF proto.identifier = RESERVED_ERROR_PROTOTYPE
                      THEN _prototypes
                      ELSE MapPut(_prototypes, proto.identifier, proto)
    /\ op' = "addPrototype"
    /\ received' = <<>> /\ called' = <<>> /\ sent' = <<>>
    /\ UNCHANGED << _rxCallbacks, _txCallbacks, _errCallbacks, _acksNeeded,
                    _lastMessageTime, _options, now, _data, loopback, outbox,
                    txCount, lastTx, codecVars, dataVars, messageVars >>

\* the condition under which sendMessage registers the message in _acksNeeded
needsAckAnyKind(message, ackRequired) == ackRequired
needsAck(message, ackRequired) ==
    ackRequired /\ message.header.type = REQUEST

\* CommunicationInterface::sendMessage
sendMessage(message, ackRequired) ==
    LET number == message.header.messageNumber
        tracked == needsAck(message, ackRequired)
    IN  /\ loopback => Len(outbox) < MaxBurst
        /\ _data' = ChannelSend(_data, <<message>>)
        /\ outbox' = IF loopback THEN Append(outbox, message) ELSE outbox
        /\ _acksNeeded' = IF tracked
                          THEN MapPut(_acksNeeded, number,
                                      SentMessage(message, 0, 0))
                          ELSE _acksNeeded
        /\ txCount' = IF tracked THEN [txCount EXCEPT ![number] = 1]
                                 ELSE txCount
        /\ lastTx' = IF tracked THEN [lastTx EXCEPT ![number] = now]
                                ELSE lastTx
        /\ op' = "sendMessage"
        /\ received' = <<>> /\ called' = <<>> /\ sent' = <<message>>
        /\ UNCHANGED << _prototypes, _rxCallbacks, _txCallbacks, _errCallbacks,
                        _lastMessageTime, _options, now, loopback, codecVars, dataVars, messageVars >>

\* what a byte outside a vector's store, or never initialised, can hold
JunkBytes == {0, 255}

\* the values to consider for the bytes Message::fromSerialized reads past the
\* end of its input: they matter only when the header read is out of range
JunkChoices(serialized) ==
    IF HeaderReadInRange(serialized) THEN {0} ELSE JunkBytes

\* what listen() does with the bytes receive() returned: the pending table and
\* the last-received timestamp it leaves, and the callbacks it invokes with
\* the message each one gets
listenOutcome(data, junk) ==
    LET unchanged == [acks |-> _acksNeeded,
                      lastMessageTime |-> _lastMessageTime,
                      called |-> <<>>]
        protoHandle == getPrototypeHandleFromBuffer(data)
    IN  IF Len(data) = 0 THEN unchanged
        ELSE IF protoHandle \notin DOMAIN _prototypes THEN unchanged
        ELSE LET proto == _prototypes[protoHandle]
                 message == fromSerialized(proto, data, junk).value
                 number == message.header.messageNumber
                 key == message.header.type
                 callbacks == IF key \in DOMAIN _rxCallbacks
                              THEN _rxCallbacks[key] ELSE <<>>
             IN  [acks |-> IF message.header.type = RESPONSE
                              /\ number \in DOMAIN _acksNeeded
                           THEN MapErase(_acksNeeded, number)
                           ELSE _acksNeeded,
                  lastMessageTime |-> now,
                  called |-> [i \in 1..Len(callbacks) |->
                                [callback |-> callbacks[i],
                                 message |-> message]]]

\* CommunicationInterface::listen
listen ==
    \E junk \in JunkChoices(_data) :
    LET out == listenOutcome(_data, junk)
    IN  /\ _data' = <<>>
        /\ _acksNeeded' = out.acks
        /\ _lastMessageTime' = out.lastMessageTime
        /\ lastTx' = [n \in DOMAIN lastTx |->
                        IF n \in DOMAIN out.acks THEN lastTx[n] ELSE -1]
        /\ op' = "listen"
        /\ received' = _data /\ called' = out.called /\ sent' = <<>>
        /\ outbox' = <<>>
        /\ UNCHANGED << _prototypes, _rxCallbacks, _txCallbacks, _errCallbacks,
                        _options, now, loopback, txCount, codecVars, dataVars, messageVars >>

\* the elements of a set of numbers in ascending order (std::map iteration)
RECURSIVE Ascending(_)
Ascending(S) ==
    IF S = {} THEN <<>>
    ELSE LET least == CHOOSE x \in S : \A y \in S : x <= y
         IN  <<least>> \o Ascending(S \ {least})

\* timeFunction() - timeSent > retryTimeout in 64-bit unsigned arithmetic; a
\* timeSent ahead of the clock wraps to a difference above any retryTimeout
TimerElapsedAtTimeout(entry) ==
    \/ now < entry.timeSent
    \/ now - entry.timeSent >= _options.retryTimeout
TimerElapsed(entry) ==
    \/ now < entry.timeSent
    \/ now - entry.timeSent > _options.retryTimeout

\* message.numRetries < _options.maxRetries
canRetryOffByOne(entry) == entry.numRetries <= _options.maxRetries
canRetry(entry) == entry.numRetries < _options.maxRetries

\* std::vector<std::uint16_t> toRemove(n)
toRemoveInitial(n) == Zeros(n)

\* the part of tick() after listen(): the scan of the pending table acks
scanOutcomeCallerObject(acks) ==
    LET resend == {k \in DOMAIN acks :
                     TimerElapsed(acks[k]) /\ canRetry(acks[k])}
        expired == {k \in DOMAIN acks :
                      TimerElapsed(acks[k]) /\ ~canRetry(acks[k])}
        toRemove == toRemoveInitial(Cardinality(DOMAIN acks))
                        \o Ascending(expired)
        removed == {toRemove[i] : i \in 1..Len(toRemove)}
        order == Ascending(resend)
    IN  [acks |-> [k \in (DOMAIN acks) \ removed |->
                     IF k \in resend
                     THEN SentMessage(acks[k].message, ToUint32(now),
                                      ToUint8(acks[k].numRetries + 1))
                     ELSE acks[k]],
         sent |-> [i \in 1..Len(order) |-> request],
         resent |-> resend]
scanOutcome(acks) ==
    LET resend == {k \in DOMAIN acks :
                     TimerElapsed(acks[k]) /\ canRetry(acks[k])}
        expired == {k \in DOMAIN acks :
                      TimerElapsed(acks[k]) /\ ~canRetry(acks[k])}
        toRemove == toRemoveInitial(Cardinality(DOMAIN acks))
                        \o Ascending(expired)
        removed == {toRemove[i] : i \in 1..Len(toRemove)}
        order == Ascending(resend)
    IN  [acks |-> [k \in (DOMAIN acks) \ removed |->
                     IF k \in resend
                     THEN SentMessage(acks[k].message, ToUint32(now),
                                      ToUint8(acks[k].numRetries + 1))
                     ELSE acks[k]],
         sent |-> [i \in 1..Len(order) |-> acks[order[i]].message],
         resent |-> resend]

\* CommunicationInterface::tick
tick ==
    \E junk \in JunkChoices(_data) :
    LET out == listenOutcome(_data, junk)
        scan == scanOutcome(out.acks)
    IN  /\ _data' = ChannelSend(<<>>, scan.sent)
        /\ _acksNeeded' = scan.acks
        /\ _lastMessageTime' = out.lastMessageTime
        /\ txCount' = [n \in DOMAIN txCount |->
                         IF n \in scan.resent THEN txCount[n] + 1
                                              ELSE txCount[n]]
        /\ lastTx' = [n \in DOMAIN lastTx |->
                        IF n \notin DOMAIN scan.acks THEN -1
                        ELSE IF n \in scan.resent THEN now
                        ELSE lastTx[n]]
        /\ op' = "tick"
        /\ received' = _data /\ called' = out.called /\ sent' = scan.sent
        /\ outbox' = IF loopback THEN scan.sent ELSE <<>>
        /\ UNCHANGED << _prototypes, _rxCallbacks, _txCallbacks, _errCallbacks,
                        _options, now, loopback, codecVars, dataVars, messageVars >>

\* the peer writes one frame to the channel
peerWrite(frame) ==
    /\ Len(_data) + Len(frame) <= MaxChannelBytes
    /\ _data' = _data \o frame
    /\ op' = "peerWrite"
    /\ received' = <<>> /\ called' = <<>> /\ sent' = <<>>
    /\ UNCHANGED << _prototypes, _rxCallbacks, _txCallbacks, _errCallbacks,
                    _acksNeeded, _lastMessageTime, _options, now, loopback, outbox,
                    txCount, lastTx, codecVars, dataVars, messageVars >>

\* the clock the user passed as timeFunction advances, up to the value last
clockStep(step, last) ==
    /\ now + step <= last
    /\ now' = now + step
    /\ op' = "advanceClock"
    /\ received' = <<>> /\ called' = <<>> /\ sent' = <<>>
    /\ UNCHANGED << _prototypes, _rxCallbacks, _txCallbacks, _errCallbacks,
                    _acksNeeded, _lastMessageTime, _options, _data, loopback, outbox,
                    txCount, lastTx, codecVars, dataVars, messageVars >>

\* the clock advances, up to MaxTime
advanceClock(step) == clockStep(step, MaxTime)

\* the clock the user passed as timeFunction starts again from 0 (a counter
\* that wraps, a device clock that is reset)
restartClock ==
    /\ now > 0
    /\ now' = 0
    /\ op' = "restartClock"
    /\ received' = <<>> /\ called' = <<>> /\ sent' = <<>>
    /\ UNCHANGED << _prototypes, _rxCallbacks, _txCallbacks, _errCallbacks,
                    _acksNeeded, _lastMessageTime, _options, _data, loopback, outbox,
                    txCount, lastTx, codecVars, dataVars, messageVars >>

\* ------------------------------------------------------------------------
\* The exchange engine: retransmission
\* ------------------------------------------------------------------------

\* CommunicationInterface(channel, options), nothing registered yet
EngineInit ==
    /\ _prototypes = EmptyMap
    /\ _rxCallbacks = EmptyMap
    /\ _txCallbacks = EmptyMap
    /\ _errCallbacks = EmptyMap
    /\ _acksNeeded = EmptyMap
    /\ _lastMessageTime = 0
    /\ _data = <<>>
    /\ outbox = <<>>
    /\ op = "init"
    /\ received = <<>> /\ called = <<>> /\ sent = <<>>
    /\ txCount = [n \in MessageNumbers |-> 0]
    /\ lastTx = [n \in MessageNumbers |-> -1]

\* no message is being encoded
CodecIdle ==
    /\ codecMessage = DefaultMessage
    /\ codecBytes = <<>>
    /\ codecResult = ErrorResult(DefaultMessage, "")

\* no prototype or buffer is being built by user code
DataIdle ==
    /\ userProto = DefaultDataPrototype
    /\ userFields = <<>>
    /\ userBuffer = DefaultDataBuffer
    /\ userCall = <<>>
    /\ userResult = ErrorResult(<<>>, "")

\* no message has been constructed yet
MessagesIdle ==
    /\ _messageNumber = 0
    /\ issued = <<>>
    /\ request = DefaultMessage
    /\ response = DefaultMessage

\* the well-formed frames of the given kinds and prototypes
WellFormedFrames(types, protos) ==
    {serialize(MessageOfPrototype(t, p, n)) :
        t \in types, p \in protos, n \in MessageNumbers}

Init ==
    /\ EngineInit
    /\ CodecIdle
    /\ DataIdle
    /\ MessagesIdle
    /\ _options \in [maxRetries : MaxRetriesChoices,
                     retryTimeout : {RetryTimeoutChoice}]
    /\ now \in ClockStarts
    /\ loopback = FALSE

\* the user registers schemas 0 and 1, sends requests and responses of
\* schema 0 with and without ack, and calls tick() and listen() as the clock
\* advances; the peer answers with responses of either schema
Next ==
    \/ \E p \in {Proto0, Proto1} : addPrototype(p)
    \/ \E t \in {REQUEST, RESPONSE}, n \in MessageNumbers, a \in BOOLEAN :
          sendMessage(MessageOfPrototype(t, Proto0, n), a)
    \/ \E f \in WellFormedFrames({RESPONSE}, {Proto0, Proto1}) : peerWrite(f)
    \/ tick
    \/ listen
    \/ \E d \in ClockSteps : advanceClock(d)

Spec == Init /\ [][Next]_vars

\* the same engine under a clock that is not monotonic: requests of schema 0
\* with and without ack, responses of the schema registered under id 1, and a
\* clock that advances or restarts between operations
AnyClockNext ==
    \/ addPrototype(Proto1)
    \/ \E n \in MessageNumbers, a \in BOOLEAN :
          sendMessage(MessageOfPrototype(REQUEST, Proto0, n), a)
    \/ \E f \in WellFormedFrames({RESPONSE}, {Proto1}) : peerWrite(f)
    \/ tick
    \/ listen
    \/ \E d \in ClockSteps : advanceClock(d)
    \/ restartClock

SpecAnyClock == Init /\ [][AnyClockNext]_vars

\* ------------------------------------------------------------------------
\* The exchange engine: dispatch of received frames
\* ------------------------------------------------------------------------

\* a frame with its first byte, or its last byte, overwritten by 0, and a frame
\* with one payload byte too many
BadPreamble(frame) == [frame EXCEPT ![1] = 0]
BadEndSequence(frame) == [frame EXCEPT ![Len(frame)] = 0]
ExtraByte(frame) ==
    SubSeq(frame, 1, Len(frame) - _endSequenceSize) \o <<0>> \o _endSequence

DispatchFrames ==
    {serialize(MessageOfPrototype(t, p, 258)) :
        t \in MessageTypes, p \in UserProtos}
MalformedFrames ==
    LET frame == serialize(MessageOfPrototype(REQUEST, Proto0, 258))
    IN  {BadPreamble(frame), BadEndSequence(frame), ExtraByte(frame)}

DispatchInit ==
    /\ EngineInit
    /\ CodecIdle
    /\ DataIdle
    /\ MessagesIdle
    /\ DataIdle
    /\ MessagesIdle
    /\ _options = [maxRetries |-> 2, retryTimeout |-> RetryTimeoutChoice]
    /\ now = 0
    /\ loopback = FALSE

\* the user registers schemas and callbacks; the peer writes well-formed
\* frames of every kind and schema, and broken ones
DispatchNext ==
    \/ \E p \in UserProtos : addPrototype(p)
    \/ \E i \in ProtoIds, t \in MessageTypes, c \in Callbacks :
          addCallback(i, t, c)
    \/ \E f \in DispatchFrames \cup MalformedFrames : peerWrite(f)
    \/ listen
    \/ tick
    \/ advanceClock(MaxTime)

SpecDispatch == DispatchInit /\ [][DispatchNext]_vars

\* ------------------------------------------------------------------------
\* The exchange engine: inbound bytes against pending requests
\* ------------------------------------------------------------------------

\* the clock read at every half of the retry timeout
HalfTimeout == RetryTimeoutChoice \div 2

\* a prototype left with the default identifier: DataPrototype().addField(...)
ProtoReserved == addField(DefaultDataPrototype, "id", INT8)

\* fewer bytes than a preamble and one more byte
ShortInput == <<82, 68>>

\* what the peer writes: Requests and Responses of schema 0, a frame whose
\* byte 3 is the reserved identifier, and a short input
InboundFrames ==
    WellFormedFrames({RESPONSE}, {Proto0})
        \cup {serialize(MessageOfPrototype(REQUEST, Proto0, 258)),
              serialize(MessageOfPrototype(RESERVED_ERROR_PROTOTYPE, Proto0, 258)),
              ShortInput}

InboundInit ==
    /\ EngineInit
    /\ CodecIdle
    /\ DataIdle
    /\ MessagesIdle
    /\ DataIdle
    /\ MessagesIdle
    /\ _options = [maxRetries |-> 2, retryTimeout |-> RetryTimeoutChoice]
    /\ now = 0
    /\ loopback = FALSE

\* the user registers schemas (one of them with the reserved identifier) and
\* callbacks for the keys 0 and 1, sends requests that need an ack, and calls
\* tick() and listen() while the peer writes frames; the clock is read up to
\* twice the retry timeout
InboundNext ==
    \/ \E p \in {Proto0, ProtoReserved} : addPrototype(p)
    \/ addCallback(0, REQUEST, "A")
    \/ addCallback(1, REQUEST, "B")
    \/ \E n \in MessageNumbers :
          sendMessage(MessageOfPrototype(REQUEST, Proto0, n), TRUE)
    \/ \E f \in InboundFrames : peerWrite(f)
    \/ tick
    \/ listen
    \/ now < 2 * RetryTimeoutChoice /\ advanceClock(HalfTimeout)

SpecInbound == InboundInit /\ [][InboundNext]_vars

\* ------------------------------------------------------------------------
\* The exchange engine: draining the pending table
\* ------------------------------------------------------------------------

\* the host calls tick() every DrainStep, which is more than the retry timeout
DrainTimeout == HalfTimeout
DrainStep == DrainTimeout + 1

DrainInit ==
    /\ EngineInit
    /\ CodecIdle
    /\ DataIdle
    /\ MessagesIdle
    /\ _options \in [maxRetries : MaxRetriesChoices,
                     retryTimeout : {DrainTimeout}]
    /\ now = 0
    /\ loopback = FALSE

\* the clock advances by DrainStep, once between two operations of the host
DrainAdvance == op # "advanceClock" /\ advanceClock(DrainStep)

\* the tick() that follows a clock step
DrainTick == op = "advanceClock" /\ tick

\* requests that need an ack are sent while the clock leaves room for all
\* their retries; the peer writes Requests, never a Response; the host calls
\* tick() at any time, and first thing after each clock step
DrainNext ==
    \/ op # "advanceClock" /\ addPrototype(Proto0)
    \/ /\ op # "advanceClock"
       /\ now + (_options.maxRetries + 1) * DrainStep <= MaxTime
       /\ \E n \in MessageNumbers :
             sendMessage(MessageOfPrototype(REQUEST, Proto0, n), TRUE)
    \/ /\ op # "advanceClock"
       /\ peerWrite(serialize(MessageOfPrototype(REQUEST, Proto0, 258)))
    \/ tick
    \/ DrainAdvance

\* the clock keeps advancing and tick() is called after each of its steps
SpecDrain ==
    /\ DrainInit /\ [][DrainNext]_vars
    /\ WF_vars(DrainAdvance)
    /\ WF_vars(DrainTick)

\* ------------------------------------------------------------------------
\* The exchange engine on the loopback channel
\* ------------------------------------------------------------------------

\* CommunicationInterface(channel, options) with channel a DummyChannel
LoopbackInit ==
    /\ EngineInit
    /\ CodecIdle
    /\ DataIdle
    /\ MessagesIdle
    /\ _options = [maxRetries |-> 1, retryTimeout |-> RetryTimeoutChoice]
    /\ now = 0
    /\ loopback = TRUE

\* the user registers schema 0, sends messages of every kind with and without
\* ack, and calls tick() and listen() while the clock advances by more than the
\* retry timeout; what is sent comes back on receive()
LoopbackNext ==
    \/ addPrototype(Proto0)
    \/ \E t \in MessageTypes, n \in MessageNumbers, a \in BOOLEAN :
          sendMessage(MessageOfPrototype(t, Proto0, n), a)
    \/ tick
    \/ listen
    \/ now <= 2 * RetryTimeoutChoice /\ advanceClock(RetryTimeoutChoice + 1)

SpecLoopback == LoopbackInit /\ [][LoopbackNext]_vars

\* ------------------------------------------------------------------------
\* The exchange engine on a loopback channel: bursts of frames
\* ------------------------------------------------------------------------

\* the user registers schema 0 and callbacks for its requests, sends up to
\* MaxBurst messages of any kind before the engine reads the channel, and
\* calls listen() and tick(); the clock stands still
BurstNext ==
    \/ addPrototype(Proto0)
    \/ \E c \in Callbacks : addCallback(Proto0.identifier, REQUEST, c)
    \/ \E t \in MessageTypes, n \in MessageNumbers, a \in BOOLEAN :
          sendMessage(MessageOfPrototype(t, Proto0, n), a)
    \/ listen
    \/ tick

SpecBurst == LoopbackInit /\ [][BurstNext]_vars

\* ------------------------------------------------------------------------
\* The exchange engine after 2^32 ms of uptime
\* ------------------------------------------------------------------------

\* the clock is first read shortly before it reaches 2^32 ms
LateClockStart == Uint32Range - RetryTimeoutChoice

LateClockInit ==
    /\ EngineInit
    /\ CodecIdle
    /\ DataIdle
    /\ MessagesIdle
    /\ _options \in [maxRetries : MaxRetriesChoices,
                     retryTimeout : {RetryTimeoutChoice}]
    /\ now = LateClockStart
    /\ loopback = FALSE

\* requests that need an ack are sent and tick() is called while the clock
\* passes 2^32 ms and goes on for MaxTime
LateClockNext ==
    \/ addPrototype(Proto0)
    \/ \E n \in MessageNumbers, a \in BOOLEAN :
          sendMessage(MessageOfPrototype(REQUEST, Proto0, n), a)
    \/ \E f \in WellFormedFrames({RESPONSE}, {Proto0}) : peerWrite(f)
    \/ tick
    \/ \E d \in ClockSteps : clockStep(d, Uint32Range + MaxTime)

SpecLateClock == LateClockInit /\ [][LateClockNext]_vars

\* ------------------------------------------------------------------------
\* The frame codec: serialize, then parse back with the message's prototype
\* ------------------------------------------------------------------------

ByteChoices == {0, 69, 255}
CodecNumbers == {0, 1, 255, 256, 258, 65535}
CodecProtos == UserProtos \cup {DataPrototype(2)}

\* buffers of a prototype with any payload (setField calls on DataBuffer(p),
\* or createFromPrototype(p, data))
BuffersOf(p) == {createFromPrototype(p, d).value : d \in [1..p.size -> ByteChoices]}

\* messages built by Message(type, data, messageNumber)
CodecMessages ==
    {MessageOfBuffer(t, b, n) :
        t \in MessageTypes, n \in CodecNumbers,
        b \in UNION {BuffersOf(p) : p \in CodecProtos}}

CodecInit ==
    /\ EngineInit
    /\ DataIdle
    /\ MessagesIdle
    /\ _options = [maxRetries |-> 2, retryTimeout |-> RetryTimeoutChoice]
    /\ now = 0
    /\ loopback = FALSE
    /\ codecMessage \in CodecMessages
    /\ codecBytes = <<>>
    /\ codecResult = ErrorResult(DefaultMessage, "")

\* codecBytes = codecMessage.serialize()
codecSerialize ==
    /\ op = "init"
    /\ codecBytes' = serialize(codecMessage)
    /\ op' = "serialize"
    /\ UNCHANGED << _prototypes, _rxCallbacks, _txCallbacks, _errCallbacks,
                    _acksNeeded, _lastMessageTime, _options, now, _data,
                    loopback, outbox, received, called, sent, txCount, lastTx,
                    codecMessage, codecResult, dataVars, messageVars >>

\* codecResult = Message::fromSerialized(P, codecBytes), P the message's own
\* prototype
codecFromSerialized ==
    /\ op = "serialize"
    /\ \E junk \in JunkChoices(codecBytes) :
          codecResult' = fromSerialized(codecMessage.buffer.type,
                                        codecBytes, junk)
    /\ op' = "fromSerialized"
    /\ UNCHANGED << _prototypes, _rxCallbacks, _txCallbacks, _errCallbacks,
                    _acksNeeded, _lastMessageTime, _options, now, _data,
                    loopback, outbox, received, called, sent, txCount, lastTx,
                    codecMessage, codecBytes, dataVars, messageVars >>

CodecNext == codecSerialize \/ codecFromSerialized

SpecCodec == CodecInit /\ [][CodecNext]_vars

\* ------------------------------------------------------------------------
\* Prototypes and buffers: addField, DataBuffer(type), setField, getField
\* ------------------------------------------------------------------------

FieldNames == {"id", "name"}
\* a name that no addField call uses
UnknownName == "pain"
FieldTypes == {UINT8, UINT16, UINT32}
\* sizeof(T) of the types T the user instantiates getField and setField with
SizesOfT == {1, 2, 4}
\* the object representation of the value the user stores: bytes 1, 2, ...
ValueOf(sizeofT) == [i \in 1..sizeofT |-> i]

\* the engine is not in use
EngineIdle ==
    /\ EngineInit
    /\ _options = [maxRetries |-> 2, retryTimeout |-> RetryTimeoutChoice]
    /\ now = 0
    /\ loopback = FALSE

\* DataPrototype type(1);
DataInit ==
    /\ EngineIdle
    /\ CodecIdle
    /\ MessagesIdle
    /\ userProto = DataPrototype(1)
    /\ userFields = <<>>
    /\ userBuffer = DefaultDataBuffer
    /\ userCall = <<>>
    /\ userResult = ErrorResult(<<>>, "")

\* type.addField(name, type)
callAddField(name, type) ==
    /\ op \in {"init", "addField"}
    /\ Len(userFields) < MaxFields
    /\ userProto' = addField(userProto, name, type)
    /\ userFields' = Append(userFields, [name |-> name, type |-> type])
    /\ userCall' = [name |-> name, type |-> type]
    /\ op' = "addField"
    /\ UNCHANGED << engineVarsButOp, codecVars, messageVars,
                    userBuffer, userResult >>

\* DataBuffer buffer(type);
callDataBuffer ==
    /\ op \in {"init", "addField"}
    /\ userBuffer' = DataBuffer(userProto)
    /\ userCall' = <<>>
    /\ op' = "DataBuffer"
    /\ UNCHANGED << engineVarsButOp, codecVars, messageVars,
                    userProto, userFields, userResult >>

\* buffer.setField<T>(name, value)
callSetField(name, value) ==
    /\ op \in {"DataBuffer", "operator=", "setField", "getField"}
    /\ \E junk \in JunkBytes :
          LET out == setField(userBuffer, name, value, junk)
          IN  /\ userBuffer' = out.buffer
              /\ userResult' = out.result
    /\ userCall' = [name |-> name, sizeofT |-> Len(value), value |-> value]
    /\ op' = "setField"
    /\ UNCHANGED << engineVarsButOp, codecVars, messageVars,
                    userProto, userFields >>

\* buffer.getField<T>(name)
callGetField(name, sizeofT) ==
    /\ op \in {"DataBuffer", "operator=", "setField", "getField"}
    /\ \E junk \in JunkBytes :
          userResult' = getField(userBuffer, name, sizeofT, junk)
    /\ userCall' = [name |-> name, sizeofT |-> sizeofT]
    /\ op' = "getField"
    /\ UNCHANGED << engineVarsButOp, codecVars, messageVars,
                    userProto, userFields, userBuffer >>

DataNext ==
    \/ \E name \in FieldNames, type \in FieldTypes : callAddField(name, type)
    \/ callDataBuffer
    \/ \E name \in FieldNames \cup {UnknownName}, sizeofT \in SizesOfT :
          callSetField(name, ValueOf(sizeofT))
    \/ \E name \in FieldNames \cup {UnknownName}, sizeofT \in SizesOfT :
          callGetField(name, sizeofT)

SpecData == DataInit /\ [][DataNext]_vars

\* the same prototype built from more names and kinds, without a buffer
MoreFieldNames == FieldNames \cup {"age"}
MoreFieldTypes == FieldTypes \cup {DOUBLE, NONE}

PrototypeNext ==
    \E name \in MoreFieldNames, type \in MoreFieldTypes :
        callAddField(name, type)

SpecPrototype == DataInit /\ [][PrototypeNext]_vars

\* ------------------------------------------------------------------------
\* Parsing arbitrary bytes with an arbitrary prototype
\* ------------------------------------------------------------------------

\* the prototypes handed to fromSerialized, createFromPrototype and
\* addPrototype: the user's, one without fields, and two with the reserved id
ParseProtos ==
    UserProtos \cup {DataPrototype(2), ProtoReserved, DefaultDataPrototype}

\* a frame with its first and its last byte overwritten by 0
BadBoth(frame) == BadEndSequence(BadPreamble(frame))

\* a frame cut after its first n bytes
Truncated(frame, n) == SubSeq(frame, 1, n)

\* inputs shorter than any frame: preamble directly followed by the end
\* sequence with 0 to 3 bytes in between, and cut or damaged variants
ShortInputs ==
    {_preamble \o Zeros(k) \o _endSequence : k \in 0..3}
        \cup {Truncated(_preamble \o _endSequence, n) : n \in 0..5}
        \cup {Zeros(n) : n \in 4..9}
        \cup {<<82, 68, 69, 78, 68>>, <<82, 69, 78, 68>>}

ParseFrames ==
    {serialize(MessageOfPrototype(t, q, 258)) :
        t \in MessageTypes, q \in UserProtos \cup {DataPrototype(2)}}

ParseInputs ==
    ParseFrames
        \cup {BadPreamble(f) : f \in ParseFrames}
        \cup {BadEndSequence(f) : f \in ParseFrames}
        \cup {BadBoth(f) : f \in ParseFrames}
        \cup {ExtraByte(f) : f \in ParseFrames}
        \cup ShortInputs

\* user code holds a prototype and some bytes
ParseInit ==
    /\ EngineIdle
    /\ MessagesIdle
    /\ codecMessage = DefaultMessage
    /\ codecBytes \in ParseInputs
    /\ codecResult = ErrorResult(DefaultMessage, "")
    /\ userProto \in ParseProtos
    /\ userFields = <<>>
    /\ userBuffer = DefaultDataBuffer
    /\ userCall = <<>>
    /\ userResult = ErrorResult(<<>>, "")

\* codecResult = Message::fromSerialized(userProto, codecBytes)
callFromSerialized ==
    /\ \E junk \in JunkChoices(codecBytes) :
          codecResult' = fromSerialized(userProto, codecBytes, junk)
    /\ op' = "fromSerialized"
    /\ UNCHANGED << engineVarsButOp, codecMessage, codecBytes, dataVars,
                    messageVars >>

\* userResult = DataBuffer::createFromPrototype(userProto, data)
callCreateFromPrototype(data) ==
    /\ userResult' = createFromPrototype(userProto, data)
    /\ userCall' = data
    /\ op' = "createFromPrototype"
    /\ UNCHANGED << engineVarsButOp, codecVars, messageVars,
                    userProto, userFields, userBuffer >>

\* userResult = com.getPrototype(identifier)
callGetPrototype(identifier) ==
    /\ userResult' = getPrototype(identifier)
    /\ userCall' = identifier
    /\ op' = "getPrototype"
    /\ UNCHANGED << engineVarsButOp, codecVars, messageVars,
                    userProto, userFields, userBuffer >>

ParseNext ==
    \/ callFromSerialized
    \/ \E n \in {0, userProto.size} : callCreateFromPrototype(Zeros(n))
    \/ addPrototype(userProto)
    \/ \E i \in {userProto.identifier, RESERVED_ERROR_PROTOTYPE} :
          callGetPrototype(i)

SpecParse == ParseInit /\ [][ParseNext]_vars

\* the same prototype with buffers made by DataBuffer(type) or taken from
\* DataBuffer::createFromPrototype, and written by setField

\* buffer = result.value(); for the result of the createFromPrototype call
\* just made (DataBuffer copy constructor, then operator=)
callAssignBuffer ==
    /\ op = "createFromPrototype"
    /\ userBuffer' = [type |-> userResult.value.type,
                      data |-> userResult.value.data]
    /\ op' = "operator="
    /\ UNCHANGED << engineVarsButOp, codecVars, messageVars,
                    userProto, userFields, userCall, userResult >>

\* the byte vectors given to createFromPrototype: of the prototype's size, one
\* byte longer, and empty
BufferInputs == {ValueOf(userProto.size), ValueOf(userProto.size + 1), <<>>}

BufferNext ==
    \/ \E name \in FieldNames, type \in FieldTypes : callAddField(name, type)
    \/ callDataBuffer
    \/ \E data \in BufferInputs : callCreateFromPrototype(data)
    \/ callAssignBuffer
    \/ \E name \in FieldNames \cup {UnknownName}, sizeofT \in SizesOfT :
          callSetField(name, ValueOf(sizeofT))

SpecBuffer == DataInit /\ [][BufferNext]_vars

\* ------------------------------------------------------------------------
\* Checking results
\* ------------------------------------------------------------------------

\* the results given to check(): a success, an error without a message
\* (Result::errorResult()), and errors with the messages "a", "bc" and
\* "d\0e" (a message with an embedded NUL, as createFromPrototype builds for
\* a prototype of size 0)
CheckResults ==
    {Ok(<<1>>), ErrorResult(<<0>>, <<>>), ErrorResult(<<0>>, <<97>>),
     ErrorResult(<<0>>, <<98, 99>>), ErrorResult(<<0>>, <<100, NUL, 101>>)}

\* bool error = rdscom::check(onError, functions...);
callCheck(functions) ==
    /\ userCall' = functions
    /\ userResult' = check(functions)
    /\ op' = "check"
    /\ UNCHANGED << engineVarsButOp, codecVars, messageVars,
                    userProto, userFields, userBuffer >>

CheckNext ==
    \E n \in 0..MaxResults : \E functions \in [1..n -> CheckResults] :
        callCheck(functions)

SpecCheck == DataInit /\ [][CheckNext]_vars

\* ------------------------------------------------------------------------
\* The schema stream: serializeFormat and fromSerializedFormat
\* ------------------------------------------------------------------------
\* In this part a field name is the sequence of the bytes of its std::string.

\* std::string operator<: the first differing byte decides; a proper prefix
\* comes first
RECURSIVE NameLess(_, _)
NameLess(a, b) ==
    IF b = <<>> THEN FALSE
    ELSE IF a = <<>> THEN TRUE
    ELSE IF Head(a) # Head(b) THEN Head(a) < Head(b)
    ELSE NameLess(Tail(a), Tail(b))

\* the keys of a std::map<std::string, DataField> in iteration order
RECURSIVE NamesInOrder(_)
NamesInOrder(S) ==
    IF S = {} THEN <<>>
    ELSE LET least == CHOOSE x \in S : \A y \in S \ {x} : NameLess(x, y)
         IN  <<least>> \o NamesInOrder(S \ {least})

\* the loop of serializeFormat over the fields named in the list
RECURSIVE serializeFields(_, _)
serializeFields(fields, names) ==
    IF names = <<>> THEN <<>>
    ELSE <<ToUint8(Len(Head(names)))>> \o Head(names)
             \o <<ToUint8(fields[Head(names)].type)>>
             \o serializeFields(fields, Tail(names))

\* DataPrototype::serializeFormat
serializeFormat(proto) ==
    <<ToUint8(proto.identifier), ToUint8(numFields(proto))>>
        \o serializeFields(proto.fields, NamesInOrder(DOMAIN proto.fields))

\* the loop of fromSerializedFormat: fieldsLeft iterations remain, offset is
\* the 0-based index of the next byte to read
RECURSIVE parseFields(_, _, _, _)
parseFields(serialized, proto, offset, fieldsLeft) ==
    IF fieldsLeft = 0 THEN Ok(proto)
    ELSE IF offset + 1 >= Len(serialized)
    THEN ErrorResult(DefaultDataPrototype, "Serialized data too short")
    ELSE LET nameSize == serialized[offset + 1]
             nameAt == offset + 1
         IN  IF nameAt + nameSize + 1 >= Len(serialized)
             THEN ErrorResult(DefaultDataPrototype,
                              "Serialized data too short")
             ELSE LET name == SubSeq(serialized, nameAt + 1, nameAt + nameSize)
                      type == serialized[nameAt + nameSize + 1]
                  IN  parseFields(serialized,
                          [identifier |-> proto.identifier,
                           size |-> proto.size + getSizeOfType(type),
                           fields |-> MapPut(proto.fields, name,
                                             DataField(proto.size, type))],
                          nameAt + nameSize + 1, fieldsLeft - 1)

\* DataPrototype::fromSerializedFormat
fromSerializedFormat(serialized) ==
    IF Len(serialized) < 2
    THEN ErrorResult(DefaultDataPrototype, "Serialized data too short")
    ELSE parseFields(serialized, DataPrototype(serialized[1]), 2,
                     serialized[2])

\* the field names and kinds the user builds schemas from: "id", "a", "ab"
SchemaNames == {<<105, 100>>, <<97>>, <<97, 98>>}
SchemaTypes == {UINT8, UINT32, DOUBLE}
\* the identifiers of the schemas
SchemaIds == {1, 255}

\* DataPrototype type(identifier);
SchemaInit ==
    /\ EngineIdle
    /\ CodecIdle
    /\ MessagesIdle
    /\ userProto \in {DataPrototype(i) : i \in SchemaIds}
    /\ userFields = <<>>
    /\ userBuffer = DefaultDataBuffer
    /\ userCall = <<>>
    /\ userResult = ErrorResult(DefaultDataPrototype, "")

\* std::vector<std::uint8_t> serialized = type.serializeFormat();
callSerializeFormat ==
    /\ op \in {"init", "addField"}
    /\ codecBytes' = serializeFormat(userProto)
    /\ op' = "serializeFormat"
    /\ UNCHANGED << engineVarsButOp, codecMessage, codecResult, messageVars,
                    dataVars >>

\* the byte vectors given to fromSerializedFormat: the stream as
\* serializeFormat wrote it, the stream without its last byte, and the
\* stream followed by one more byte
SchemaInputs ==
    {codecBytes, SubSeq(codecBytes, 1, Len(codecBytes) - 1),
     codecBytes \o <<0>>}

\* DataPrototype::fromSerializedFormat(input)
callFromSerializedFormat(input) ==
    /\ op = "serializeFormat"
    /\ userCall' = input
    /\ userResult' = fromSerializedFormat(input)
    /\ op' = "fromSerializedFormat"
    /\ UNCHANGED << engineVarsButOp, codecVars, messageVars,
                    userProto, userFields, userBuffer >>

SchemaNext ==
    \/ \E name \in SchemaNames, type \in SchemaTypes : callAddField(name, type)
    \/ callSerializeFormat
    \/ \E input \in SchemaInputs : callFromSerializedFormat(input)

SpecSchema == SchemaInit /\ [][SchemaNext]_vars

\* ------------------------------------------------------------------------
\* Constructing messages and responses
\* ------------------------------------------------------------------------

\* values of the static counter when the program is observed: at start-up and
\* after 65534 constructions
CounterStarts == {0, 65534}

MessagesInit ==
    /\ EngineIdle
    /\ CodecIdle
    /\ DataIdle
    /\ _messageNumber \in CounterStarts
    /\ issued = <<>>
    /\ request = DefaultMessage
    /\ response = DefaultMessage

\* Message request(type, proto);
callNewMessage(type, proto) ==
    /\ \/ _messageNumber < MaxMessages
       \/ _messageNumber >= 65536 - MaxMessages
    /\ LET out == NewMessageOfPrototype(type, proto, _messageNumber)
       IN  /\ request' = out.message
           /\ _messageNumber' = out.counter
           /\ issued' = Append(issued, out.message.header.messageNumber)
    /\ op' = "Message"
    /\ UNCHANGED << engineVarsButOp, codecVars, dataVars, response >>

\* Message request(type, proto, messageNumber);
callNewMessageNumbered(type, proto, messageNumber) ==
    /\ request' = MessageOfPrototype(type, proto, messageNumber)
    /\ op' = "MessageNumbered"
    /\ UNCHANGED << engineVarsButOp, codecVars, dataVars, response,
                    _messageNumber, issued >>

\* Message response = Message::createResponse(request, data);
callCreateResponse(data) ==
    /\ LET out == createResponse(request, data, _messageNumber)
       IN  /\ response' = out.message
           /\ _messageNumber' = out.counter
    /\ op' = "createResponse"
    /\ UNCHANGED << engineVarsButOp, codecVars, dataVars, request, issued >>

\* Message response = Message::createResposne(request, proto);
callCreateResposne(proto) ==
    /\ LET out == createResposne(request, proto, _messageNumber)
       IN  /\ response' = out.message
           /\ _messageNumber' = out.counter
    /\ op' = "createResposne"
    /\ UNCHANGED << engineVarsButOp, codecVars, dataVars, request, issued >>

MessagesNext ==
    \/ \E t \in MessageTypes, q \in {Proto0, Proto1} : callNewMessage(t, q)
    \/ \E t \in MessageTypes, n \in MessageNumbers :
          callNewMessageNumbered(t, Proto0, n)
    \/ \E q \in {Proto0, Proto1} : callCreateResponse(DataBuffer(q))
    \/ \E q \in {Proto0, Proto1} : callCreateResposne(q)

SpecMessages == MessagesInit /\ [][MessagesNext]_vars

\* ------------------------------------------------------------------------
\* The exchange engine on a loopback channel: the sender's Message object
\* ------------------------------------------------------------------------

\* the values the user stores in field "id" of a request
RequestValues == {<<7>>, <<9>>}

\* request.setField<std::int8_t>("id", value)
callMessageSetField(value) ==
    /\ request # DefaultMessage
    /\ \E junk \in JunkBytes :
          request' = Message(request.header,
                             setField(request.buffer, "id", value, junk).buffer)
    /\ request' # request
    /\ op' = "Message::setField"
    /\ UNCHANGED << engineVarsButOp, codecVars, dataVars, response,
                    _messageNumber, issued >>

\* the user's Message object ends its life: request = Message();
destroyRequest ==
    /\ request # DefaultMessage
    /\ request' = DefaultMessage
    /\ op' = "~Message"
    /\ UNCHANGED << engineVarsButOp, codecVars, dataVars, response,
                    _messageNumber, issued >>

\* the user builds a request of schema 0, fills it, sends it with or without
\* ack once the channel has been read, and then changes or destroys the
\* object while tick() runs and the clock advances by more than the retry
\* timeout
RetransmitNext ==
    \/ \E n \in MessageNumbers : callNewMessageNumbered(REQUEST, Proto0, n)
    \/ \E value \in RequestValues : callMessageSetField(value)
    \/ destroyRequest
    \/ \E a \in BOOLEAN :
          request # DefaultMessage /\ outbox = <<>> /\ sendMessage(request, a)
    \/ tick
    \/ now <= 2 * RetryTimeoutChoice /\ advanceClock(RetryTimeoutChoice + 1)

SpecRetransmit == LoopbackInit /\ [][RetransmitNext]_vars

\* ------------------------------------------------------------------------
\* Properties
\* ------------------------------------------------------------------------

\* how many times number n occurs among the messages of a list
TimesSent(messages, n) ==
    Cardinality({i \in 1..Len(messages) : messages[i].header.messageNumber = n})

\* the bytes are a frame whose kind byte says Response and whose number bytes
\* say n
IsResponseFrameFor(bytes, n) ==
    /\ Len(bytes) >= _preambleSize + sizeofMessageHeader
    /\ bytes[4] = RESPONSE
    /\ bytes[6] * 256 + bytes[7] = n

\* the callbacks registered by addCallback(i, k, ...), in registration order
RegisteredFor(i, k) ==
    LET map == IF getMap(k) = "rx" THEN _rxCallbacks
               ELSE IF getMap(k) = "tx" THEN _txCallbacks
               ELSE _errCallbacks
    IN  IF i \in DOMAIN map THEN map[i] ELSE <<>>

\* the names of the callbacks invoked, in order of invocation
CallbackNames(calls) == [j \in 1..Len(calls) |-> calls[j].callback]

\* C1: Retry schedule.  In a tick() that reads no bytes and comes more than
\* retryTimeout after the last transmission of a pending request n: while
\* numRetries < maxRetries the request is retransmitted exactly once, stays
\* pending and numRetries grows by one; at numRetries = maxRetries the entry is
\* removed and nothing is sent for it; a request that is not pending is never
\* sent by tick().  This holds for every message number, 0 included.
C1_RetrySchedule ==
    [][ (op' = "tick" /\ _data = <<>>) =>
          /\ \A n \in DOMAIN _acksNeeded :
               now - lastTx[n] > _options.retryTimeout =>
                 IF _acksNeeded[n].numRetries < _options.maxRetries
                 THEN /\ TimesSent(sent', n) = 1
                      /\ n \in DOMAIN _acksNeeded'
                      /\ _acksNeeded'[n].numRetries
                            = _acksNeeded[n].numRetries + 1
                 ELSE /\ TimesSent(sent', n) = 0
                      /\ n \notin DOMAIN _acksNeeded'
          /\ \A n \in MessageNumbers \ DOMAIN _acksNeeded :
               TimesSent(sent', n) = 0 ]_vars

\* C2: Retry bound.  Whatever the clock does and whenever tick() is called, a
\* request sent by the user with ackRequired = true is written to the channel
\* at most maxRetries + 1 times: the original send and at most maxRetries
\* retransmissions (none when maxRetries = 0).
C2_RetryBound ==
    \A n \in MessageNumbers : txCount[n] <= _options.maxRetries + 1

\* C2 witness: with maxRetries = 2 a request has been written three times, the
\* last time by tick(), and a later tick() has run without writing it again.
C2_Witness ==
    /\ _options.maxRetries = 2
    /\ op = "tick"
    /\ sent = <<>>
    /\ \E n \in MessageNumbers : txCount[n] = 3 /\ n \in DOMAIN _acksNeeded

\* C3: Pending-entry lifecycle.  An entry leaves the pending table only in an
\* operation that receives a Response with its number, or when its timer has
\* elapsed with numRetries = maxRetries; an entry (message number 0 included)
\* whose timer has not elapsed and for which tick() receives no Response is
\* still pending after the tick().
C3_PendingLifecycle ==
    [][ \A n \in DOMAIN _acksNeeded :
          n \notin DOMAIN _acksNeeded' =>
            \/ IsResponseFrameFor(received', n)
            \/ /\ TimerElapsed(_acksNeeded[n])
               /\ _acksNeeded[n].numRetries = _options.maxRetries ]_vars

\* C4: Ack clears pending.  When tick() or listen() receives a well-formed
\* Response frame of a registered schema with message number n, the pending
\* entry n is gone afterwards (and so never retransmitted again), whatever the
\* schema of the request was.
C4_AckClearsPending ==
    [][ \A n \in DOMAIN _acksNeeded, i \in DOMAIN _prototypes :
          ( /\ op' \in {"tick", "listen"}
            /\ _data = serialize(MessageOfPrototype(RESPONSE, _prototypes[i], n)) )
          => n \notin DOMAIN _acksNeeded' ]_vars

\* C5: Dispatch by (schema id, kind).  When listen() receives a well-formed
\* frame of kind k whose schema id i is registered, the callbacks it invokes
\* are exactly those registered with addCallback(i, k, ...), each once.
C5_DispatchBySchemaAndKind ==
    [][ \A i \in DOMAIN _prototypes, k \in MessageTypes, n \in MessageNumbers :
          ( /\ op' = "listen"
            /\ _data = serialize(MessageOfPrototype(k, _prototypes[i], n)) )
          => CallbackNames(called') = RegisteredFor(i, k) ]_vars

\* C6: Malformed frames are dropped.  When listen() reads bytes whose peeked
\* schema id is registered and Message::fromSerialized fails on them, no
\* callback is invoked and the pending table and the last-received timestamp
\* stay as they were.
C6_MalformedDropped ==
    [][ ( /\ op' = "listen"
          /\ Len(_data) > 0
          /\ getPrototypeHandleFromBuffer(_data) \in DOMAIN _prototypes
          /\ \A junk \in JunkChoices(_data) :
               fromSerialized(_prototypes[getPrototypeHandleFromBuffer(_data)],
                              _data, junk).isError )
        => /\ called' = <<>>
           /\ _acksNeeded' = _acksNeeded
           /\ _lastMessageTime' = _lastMessageTime ]_vars

\* C7: Minimum spacing.  Every retransmission of a pending request by tick()
\* comes more than retryTimeout after the previous transmission of that
\* request (the original sendMessage or the previous retransmission).
C7_MinimumSpacing ==
    [][ op' = "tick" =>
          \A n \in DOMAIN _acksNeeded :
            TimesSent(sent', n) > 0 =>
              now - lastTx[n] > _options.retryTimeout ]_vars

\* C8: Round-trip framing.  Parsing the serialized bytes of a message with the
\* message's own prototype (identifier other than 0x50) succeeds and gives
\* back the kind, the schema id, the message number and the payload bytes.
C8_RoundTrip ==
    op = "fromSerialized" =>
        /\ ~codecResult.isError
        /\ codecResult.value.header.type = codecMessage.header.type
        /\ codecResult.value.header.prototypeHandle
               = codecMessage.header.prototypeHandle
        /\ codecResult.value.header.messageNumber
               = codecMessage.header.messageNumber
        /\ codecResult.value.buffer.data = codecMessage.buffer.data

\* C8 witness: a Response numbered 65535 with a two-byte payload that
\* contains the byte 'E' has been serialized and parsed back.
C8_Witness ==
    /\ op = "fromSerialized"
    /\ codecMessage.header.type = RESPONSE
    /\ codecMessage.header.messageNumber = 65535
    /\ codecMessage.buffer.data = <<69, 255>>
    /\ codecMessage.buffer.type.identifier # RESERVED_ERROR_PROTOTYPE

\* C9: Frame layout and length law.  The serialized bytes are 'R','D','S',
\* the kind, the schema id, the high byte and the low byte of the message
\* number, the payload bytes, 'E','N','D', and there are 10 + prototype size
\* of them.
C9_FrameLayout ==
    op = "serialize" =>
        LET size == codecMessage.buffer.type.size
        IN  /\ Len(codecBytes) = 10 + size
            /\ SubSeq(codecBytes, 1, 3) = <<82, 68, 83>>
            /\ codecBytes[4] = codecMessage.header.type
            /\ codecBytes[5] = codecMessage.header.prototypeHandle
            /\ codecBytes[6] = codecMessage.header.messageNumber \div 256
            /\ codecBytes[7] = codecMessage.header.messageNumber % 256
            /\ SubSeq(codecBytes, 8, 7 + size) = codecMessage.buffer.data
            /\ SubSeq(codecBytes, 8 + size, 10 + size) = <<69, 78, 68>>

\* C9 witness: an Error message of schema 1 numbered 258 with payload 255, 0
\* has been serialized into 12 bytes.
C9_Witness ==
    /\ op = "serialize"
    /\ codecMessage.header.type = ERROR
    /\ codecMessage.header.prototypeHandle = 1
    /\ codecMessage.header.messageNumber = 258
    /\ codecMessage.buffer.data = <<255, 0>>
    /\ Len(codecBytes) = 12

\* C10: Callback order.  The callbacks listen() invokes for a frame run in
\* registration order, each once, with the same Message value; in particular
\* with A then B registered for (schema 3, Request), a well-formed Request
\* frame of schema 3 makes listen() call A, then B.
C10_CallbackOrder ==
    [][ op' = "listen" =>
          /\ \A j1, j2 \in 1..Len(called') :
               called'[j1].message = called'[j2].message
          /\ \A n \in MessageNumbers :
               ( /\ RegisteredFor(3, REQUEST) = <<"A", "B">>
                 /\ 3 \in DOMAIN _prototypes
                 /\ _data = serialize(MessageOfPrototype(REQUEST,
                                                         _prototypes[3], n)) )
               => CallbackNames(called') = <<"A", "B">> ]_vars

\* C11: Quiescence.  When the channel returns no bytes and no pending entry
\* satisfies now - timeSent > retryTimeout (in unsigned arithmetic), tick()
\* writes nothing to the channel and invokes no callback.
C11_Quiescence ==
    [][ ( /\ op' = "tick"
          /\ _data = <<>>
          /\ \A n \in DOMAIN _acksNeeded :
               /\ now >= _acksNeeded[n].timeSent
               /\ now - _acksNeeded[n].timeSent <= _options.retryTimeout )
        => /\ sent' = <<>>
           /\ called' = <<>>
           /\ _data' = <<>> ]_vars

\* C11 witness: with callbacks registered, a tick() that read no bytes has run
\* exactly retryTimeout after request 258 was armed, and the request is still
\* pending without having been written again.
C11_Witness ==
    /\ op = "tick"
    /\ received = <<>>
    /\ sent = <<>>
    /\ called = <<>>
    /\ RegisteredCallbacks = {"A", "B"}
    /\ 258 \in DOMAIN _acksNeeded
    /\ now - _acksNeeded[258].timeSent = _options.retryTimeout
    /\ txCount[258] = 1

\* the sum of the widths of the first k addField calls
RECURSIVE WidthsBefore(_, _)
WidthsBefore(calls, k) ==
    IF k = 0 THEN 0
    ELSE WidthsBefore(calls, k - 1) + getSizeOfType(calls[k].type)

\* the addField calls used pairwise distinct names
DistinctNames(calls) ==
    \A i, j \in 1..Len(calls) : calls[i].name = calls[j].name => i = j

\* C12: Width law.  On a buffer of any prototype built by addField calls:
\* setField<T>(f, v) on a field f of the prototype succeeds exactly when
\* sizeof(T) is the width of f's kind; getField<T>(f) right after a successful
\* setField<T>(f, v) succeeds and returns v; getField and setField on a name
\* that is not in the prototype return an error.
C12_WidthLaw ==
    [][ /\ ( /\ op' = "setField"
             /\ userCall'.name \in DOMAIN userBuffer.type.fields )
           => ( ~userResult'.isError
                  <=> userCall'.sizeofT = getSizeOfType(
                          userBuffer.type.fields[userCall'.name].type) )
        /\ ( /\ op' \in {"setField", "getField"}
             /\ userCall'.name \notin DOMAIN userBuffer.type.fields )
           => userResult'.isError
        /\ ( /\ op = "setField" /\ ~userResult.isError
             /\ op' = "getField"
             /\ userCall'.name = userCall.name
             /\ userCall'.sizeofT = userCall.sizeofT )
           => ( ~userResult'.isError /\ userResult'.value = userCall.value )
      ]_vars

\* C13: Field-offset law.  After addField calls with pairwise distinct names,
\* each field's offset is the sum of the widths of the fields added before it
\* and size() is the sum of all the widths.
C13_FieldOffsets ==
    DistinctNames(userFields) =>
        /\ \A k \in 1..Len(userFields) :
             /\ userFields[k].name \in DOMAIN userProto.fields
             /\ userProto.fields[userFields[k].name].offset
                    = WidthsBefore(userFields, k - 1)
             /\ userProto.fields[userFields[k].name].type = userFields[k].type
        /\ userProto.size = WidthsBefore(userFields, Len(userFields))

\* C13 witness: three fields of widths 4, 2 and 8 have been added under
\* distinct names; the third one sits at offset 6 and size() is 14.
C13_Witness ==
    /\ op = "addField"
    /\ Len(userFields) = 3
    /\ DistinctNames(userFields)
    /\ userFields[1].type = UINT32
    /\ userFields[2].type = UINT16
    /\ userFields[3].type = DOUBLE
    /\ userProto.fields[userFields[3].name].offset = 6
    /\ userProto.size = 14

\* C14: Reserved id rejection.  With a prototype whose identifier is 0x50,
\* DataBuffer::createFromPrototype and Message::fromSerialized return an
\* error and addPrototype leaves the registry unchanged; the registry never
\* has an entry for 0x50 and getPrototype(0x50) returns an error.
C14_ReservedRejected ==
    /\ RESERVED_ERROR_PROTOTYPE \notin DOMAIN _prototypes
    /\ getPrototype(RESERVED_ERROR_PROTOTYPE).isError
    /\ ( op = "getPrototype" /\ userCall = RESERVED_ERROR_PROTOTYPE )
          => userResult.isError
    /\ ( op = "createFromPrototype"
         /\ userProto.identifier = RESERVED_ERROR_PROTOTYPE )
          => userResult.isError
    /\ ( op = "fromSerialized"
         /\ userProto.identifier = RESERVED_ERROR_PROTOTYPE )
          => codecResult.isError

\* C14 witness: a prototype with identifier 0x50 and one field has been given
\* to fromSerialized (with a frame of its size), to createFromPrototype (with
\* data of its size) and last to addPrototype.
C14_Witness ==
    /\ op = "addPrototype"
    /\ userProto = ProtoReserved
    /\ Len(codecBytes) = 10 + userProto.size
    /\ codecResult.error = "Invalid prototype"
    /\ userCall = Zeros(userProto.size)
    /\ userResult.error = "Invalid prototype"
    /\ _prototypes = EmptyMap

\* C15: Message schema invariant.  A message returned by a successful
\* Message::fromSerialized(P, bytes) has header.prototypeHandle equal to the
\* identifier of its buffer's prototype, and fromSerialized does not succeed
\* on a frame whose schema-id byte differs from P.identifier().
C15_SchemaInvariant ==
    ( op = "fromSerialized" /\ ~codecResult.isError ) =>
        /\ codecResult.value.header.prototypeHandle
              = codecResult.value.buffer.type.identifier
        /\ codecBytes[5] = userProto.identifier

\* the error the checks of the parse procedure report, taken in their order:
\* invalid prototype, too short, bad preamble, bad end sequence, header
\* shorter than 4 bytes, length mismatch
ParseOrderError(P, bytes) ==
    IF P.identifier = 80 THEN "Invalid prototype"
    ELSE IF Len(bytes) <= 3 THEN "Message too short"
    ELSE IF SubSeq(bytes, 1, 3) # <<82, 68, 83>> THEN "Invalid preamble"
    ELSE IF SubSeq(bytes, Len(bytes) - 2, Len(bytes)) # <<69, 78, 68>>
    THEN "Invalid end sequence"
    ELSE IF Len(bytes) - 3 < 4 THEN "Failed to create message header"
    ELSE IF Len(bytes) # 10 + P.size THEN "Message size mismatch"
    ELSE ""

\* C17: Parse failure order.  Message::fromSerialized(P, bytes) reports the
\* first failing check in the order: invalid prototype, too short, bad
\* preamble, bad end sequence, header shorter than 4 bytes, length mismatch;
\* a frame with byte 0 corrupted fails with bad preamble, one with its last
\* byte corrupted with bad end sequence, and every input whose length is not
\* 10 + P.size() is rejected.
C17_ParseFailureOrder ==
    op = "fromSerialized" =>
        /\ codecResult.error = ParseOrderError(userProto, codecBytes)
        /\ codecResult.isError <=> ParseOrderError(userProto, codecBytes) # ""
        /\ Len(codecBytes) # 10 + userProto.size => codecResult.isError

\* C18: Short frames fail cleanly.  On every input of 4 to 9 bytes, the
\* 6-byte 'R','D','S','E','N','D' included, Message::fromSerialized returns
\* an error and reads no byte at or beyond the input length.
C18_ShortFramesClean ==
    ( op = "fromSerialized" /\ Len(codecBytes) \in 4..9 ) =>
        /\ codecResult.isError
        /\ \A i \in fromSerializedReads(userProto, codecBytes) :
             i < Len(codecBytes)

\* C16: Response builder.  Message::createResponse(q, data) and
\* Message::createResposne(q, proto) return a message of kind RESPONSE whose
\* message number is q's, and leave the process-wide message-number counter
\* as it was.
C16_ResponseBuilder ==
    [][ op' \in {"createResponse", "createResposne"} =>
          /\ response'.header.type = RESPONSE
          /\ response'.header.messageNumber = request.header.messageNumber
          /\ _messageNumber' = _messageNumber ]_vars

\* C16 witness: a Request that took its number 65535 from the counter (which
\* wrapped to 0) has been answered through createResponse with a buffer of
\* another schema.
C16_Witness ==
    /\ op = "createResponse"
    /\ request.header.type = REQUEST
    /\ request.header.messageNumber = 65535
    /\ _messageNumber = 0
    /\ response.header.messageNumber = 65535
    /\ response.header.prototypeHandle # request.header.prototypeHandle

C20_DrainLiveness == <>[](_acksNeeded = EmptyMap)

\* C20 witness: with maxRetries = 2, request 258 has been written three times
\* and a tick() has then removed it, leaving the pending table empty.
C20_Witness ==
    /\ op = "tick"
    /\ _options.maxRetries = 2
    /\ txCount[258] = 3
    /\ sent = <<>>
    /\ _acksNeeded = EmptyMap

\* C21: Responses are never tracked.  sendMessage(m, ackRequired) writes the
\* frame of m to the channel once; with m of kind RESPONSE or ERROR, or with
\* ackRequired = false, it leaves the pending table as it was; and in every
\* reachable state each entry of the pending table holds a message of kind
\* REQUEST under that message's own number.
C21_ResponsesNeverTracked ==
    /\ [](\A n \in DOMAIN _acksNeeded :
            /\ _acksNeeded[n].message.header.type = REQUEST
            /\ _acksNeeded[n].message.header.messageNumber = n)
    /\ [][ \A t \in MessageTypes, n \in MessageNumbers, a \in BOOLEAN :
             LET m == MessageOfPrototype(t, Proto0, n)
             IN  sendMessage(m, a) =>
                   /\ sent' = <<m>>
                   /\ _data' = _data \o serialize(m)
                   /\ (t # REQUEST \/ ~a) => _acksNeeded' = _acksNeeded ]_vars

\* C21 witness: while request 0 is pending and nothing else, the Response
\* numbered 258 has been sent and its frame is the one in the channel.
C21_Witness ==
    /\ op = "sendMessage"
    /\ sent = <<MessageOfPrototype(RESPONSE, Proto0, 258)>>
    /\ _data = serialize(MessageOfPrototype(RESPONSE, Proto0, 258))
    /\ DOMAIN _acksNeeded = {0}
    /\ _acksNeeded[0].message.header.type = REQUEST

\* C22: Buffer length invariant.  A buffer made by DataBuffer(type) or taken
\* from a successful createFromPrototype, copied, assigned and written by
\* setField calls that succeed or fail, always has as many bytes as its
\* prototype's size(); createFromPrototype returns an error when the number of
\* bytes it is given differs from the prototype's size.
C22_BufferLength ==
    /\ Len(userBuffer.data) = userBuffer.type.size
    /\ op = "createFromPrototype" =>
          /\ Len(userCall) # userProto.size => userResult.isError
          /\ ~userResult.isError =>
                Len(userResult.value.data) = userResult.value.type.size

\* C22 witness: a buffer taken from createFromPrototype with the bytes 1, 2, 3,
\* for a prototype of size 3 in which a field was re-added, has had its last
\* byte overwritten by a successful setField and still holds 3 bytes.
C22_Witness ==
    /\ op = "setField"
    /\ ~userResult.isError
    /\ ~DistinctNames(userFields)
    /\ userBuffer.type.size = 3
    /\ userBuffer.data = <<1, 2, 1>>

\* C23: Sequence allocation.  The numbers of the messages constructed without
\* an explicit number come from one 16-bit counter: counted from the counter
\* value at the start, the k-th of them has number (start + k - 1) mod 65536
\* (that is (k - 1) mod 65536 from program start), 65535 is followed by 0, and
\* no two of them are equal; constructing a message with an explicit number,
\* or a response, does not move the counter.
C23_SequenceAllocation ==
    LET start == (_messageNumber + 65536 - Len(issued)) % 65536
    IN  /\ start \in CounterStarts
        /\ \A k \in 1..Len(issued) : issued[k] = (start + k - 1) % 65536
        /\ \A i, j \in 1..Len(issued) : i # j => issued[i] # issued[j]
        /\ op = "Message" => request.header.messageNumber = issued[Len(issued)]

\* C23 witness: the counter has given out 65534, 65535, 0 and 1, and a message
\* has then been constructed with the explicit number 258; the counter is 2.
C23_Witness ==
    /\ op = "MessageNumbered"
    /\ issued = <<65534, 65535, 0, 1>>
    /\ request.header.messageNumber = 258
    /\ _messageNumber = 2

\* the bytes of the frames of a list of messages, in the order of the list:
\* byte j of the result is byte j - (i - 1) * 11 of frame i (every frame of
\* schema 0 has 11 bytes)
FramesInOrder(messages) ==
    [j \in 1..(11 * Len(messages)) |->
        serialize(messages[((j - 1) \div 11) + 1])[((j - 1) % 11) + 1]]

\* C24: Loopback channel.  On DummyChannel the receive() made by listen() or
\* tick() returns the serialized bytes of every message sent since the
\* previous receive(), concatenated in send order, and empties the buffer: a
\* receive() that directly follows a listen() returns no bytes.
C24_LoopbackChannel ==
    [][ /\ op' \in {"listen", "tick"} =>
              received' = FramesInOrder(outbox)
        /\ op' = "listen" => _data' = <<>>
        /\ (op = "listen" /\ op' \in {"listen", "tick"}) =>
              received' = <<>> ]_vars

\* C24 witness: listen() has received, in this order, the frames of Request
\* 258 and of Response 0, sent one after the other, and the buffer is empty.
C24_Witness ==
    /\ op = "listen"
    /\ received = serialize(MessageOfPrototype(REQUEST, Proto0, 258))
                      \o serialize(MessageOfPrototype(RESPONSE, Proto0, 0))
    /\ _data = <<>>
    /\ outbox = <<>>

\* the non-empty error messages of a list of results, in argument order
NonEmptyErrors(results) ==
    SelectSeq([i \in 1..Len(results) |-> results[i].error],
              LAMBDA e : Len(e) > 0)

\* the strings of a list one after the other, each followed by the characters
\* of suffix
RECURSIVE Concatenated(_, _)
Concatenated(strings, suffix) ==
    IF strings = <<>> THEN <<>>
    ELSE Head(strings) \o suffix \o Concatenated(Tail(strings), suffix)

\* the characters of a string before its first NUL (all of them if none)
RECURSIVE BeforeNul(_)
BeforeNul(str) ==
    IF str = <<>> \/ Head(str) = 0 THEN <<>>
    ELSE <<Head(str)>> \o BeforeNul(Tail(str))

\* C25 as stated: check(onError, r1, ..., rn) returns true exactly when some
\* ri is an error; it then calls onError once with the non-empty error
\* messages concatenated in argument order; otherwise it makes no call.
C25_ErrorAggregationAsStated ==
    op = "check" =>
        LET anyError == \E i \in 1..Len(userCall) : userCall[i].isError
        IN  /\ userResult.returns <=> anyError
            /\ anyError =>
                  userResult.onError
                      = <<Concatenated(NonEmptyErrors(userCall), <<>>)>>
            /\ ~anyError => userResult.onError = <<>>

\* C25 (amended): Error aggregation.  check(onError, r1, ..., rn) returns true
\* exactly when some ri is an error; it then calls onError exactly once, with
\* the C string of the non-empty error messages in argument order, each one
\* followed by a newline (what onError sees ends at the first NUL character,
\* if a message has one); when it returns false it does not call onError.
C25_ErrorAggregation ==
    op = "check" =>
        LET anyError == \E i \in 1..Len(userCall) : userCall[i].isError
        IN  /\ userResult.returns <=> anyError
            /\ anyError =>
                  userResult.onError
                      = <<BeforeNul(Concatenated(NonEmptyErrors(userCall),
                                                 <<10>>))>>
            /\ ~anyError => userResult.onError = <<>>

\* C25 witness: check() was given an error with message "bc", an error
\* without a message and an error with message "a"; it returned true and
\* called onError once, with "bc\na\n".
C25_Witness ==
    /\ op = "check"
    /\ Len(userCall) = 3
    /\ userCall[2].isError
    /\ Len(userCall[2].error) = 0
    /\ userResult.returns
    /\ userResult.onError = << <<98, 99, 10, 97, 10>> >>

\* C26: Arming a request.  sendMessage(m, true) with m of kind REQUEST leaves
\* a pending entry under m's number with numRetries = 0 and timeSent equal to
\* the clock value at the send, and a tick() that comes less than retryTimeout
\* after that send does not retransmit m, whatever the clock value is.
C26_ArmingARequest ==
    [][ /\ \A n \in MessageNumbers :
             sendMessage(MessageOfPrototype(REQUEST, Proto0, n), TRUE) =>
               /\ n \in DOMAIN _acksNeeded'
               /\ _acksNeeded'[n].numRetries = 0
               /\ _acksNeeded'[n].timeSent = now
        /\ op' = "tick" =>
             \A n \in DOMAIN _acksNeeded :
               ( /\ txCount[n] = 1
                 /\ now - lastTx[n] < _options.retryTimeout )
               => TimesSent(sent', n) = 0 ]_vars

\* C27: Timestamp width.  After a retransmission of request n at clock value t
\* (t at or above 2^32 ms included) the entry's timeSent is t, so that the
\* next tick() computes the elapsed time now - t and does not retransmit n
\* again until more than retryTimeout has elapsed since t.
C27_TimestampWidth ==
    [][ op' = "tick" =>
          \A n \in DOMAIN _acksNeeded :
            txCount[n] > 1 =>
              /\ _acksNeeded[n].timeSent = lastTx[n]
              /\ TimesSent(sent', n) > 0 =>
                    now - lastTx[n] > _options.retryTimeout ]_vars

\* C28: Order within a tick.  tick() reads and dispatches the inbound frame
\* before it scans the pending table: when the bytes readable at the start of
\* a tick() are a well-formed Response frame of a registered schema with
\* message number s, request s is not retransmitted in that tick(), even when
\* its timer has elapsed.
C28_OrderWithinTick ==
    [][ op' = "tick" =>
          \A s \in DOMAIN _acksNeeded, i \in DOMAIN _prototypes :
            _data = serialize(MessageOfPrototype(RESPONSE, _prototypes[i], s))
              => TimesSent(sent', s) = 0 ]_vars

\* C29: Response frame effect.  When listen() or tick() receives a well-formed
\* Response frame of a registered schema with message number s: every pending
\* entry with another number is still there afterwards with the same message,
\* timeSent and numRetries (for tick(): provided its own timer has not
\* elapsed), so at most entry s is removed; and when s is not in the pending
\* table the Response is still dispatched to the callbacks registered for it.
C29_ResponseFrameEffect ==
    [][ \A s \in MessageNumbers, i \in DOMAIN _prototypes :
          ( /\ op' \in {"tick", "listen"}
            /\ _data = serialize(MessageOfPrototype(RESPONSE, _prototypes[i], s)) )
          => /\ \A n \in (DOMAIN _acksNeeded) \ {s} :
                  ( op' = "listen" \/ ~TimerElapsed(_acksNeeded[n]) )
                  => /\ n \in DOMAIN _acksNeeded'
                     /\ _acksNeeded'[n] = _acksNeeded[n]
             /\ s \notin DOMAIN _acksNeeded
                  => CallbackNames(called') = RegisteredFor(i, RESPONSE) ]_vars

\* the sum of the widths of the fields of a prototype with the given names
RECURSIVE SumOfWidths(_, _)
SumOfWidths(fields, names) ==
    IF names = {} THEN 0
    ELSE LET name == CHOOSE x \in names : TRUE
         IN  getSizeOfType(fields[name].type)
                 + SumOfWidths(fields, names \ {name})

ByteRange(field) ==
    (field.offset + 1)..(field.offset + getSizeOfType(field.type))

\* C31: Fields stay inside the buffer.  After any sequence of addField
\* calls, replacements of existing names included, every field f of the
\* prototype has f.offset + width(f) <= size(), so getField and setField on a
\* DataBuffer of that prototype copy no byte outside its backing store.
C31_FieldsInsideBuffer ==
    /\ \A name \in DOMAIN userProto.fields :
          userProto.fields[name].offset
              + getSizeOfType(userProto.fields[name].type) <= userProto.size
    /\ \A name \in DOMAIN userBuffer.type.fields :
          ByteRange(userBuffer.type.fields[name])
              \subseteq 1..Len(userBuffer.data)

\* C32: Fields do not overlap.  After any sequence of addField calls,
\* replacements of existing names included, the byte ranges of two distinct
\* fields are disjoint; a successful setField on one field leaves the value
\* that getField returns for every other field as it was.
C32_FieldsDisjoint ==
    /\ [](\A f, g \in DOMAIN userProto.fields :
            f # g => ByteRange(userProto.fields[f])
                         \cap ByteRange(userProto.fields[g]) = {})
    /\ [][ ( op' = "setField" /\ ~userResult'.isError )
            => \A g \in (DOMAIN userBuffer.type.fields) \ {userCall'.name} :
                 \A junk \in JunkBytes :
                    getField(userBuffer', g,
                             getSizeOfType(userBuffer.type.fields[g].type),
                             junk)
                      = getField(userBuffer, g,
                             getSizeOfType(userBuffer.type.fields[g].type),
                             junk) ]_vars

\* the sum of the widths of the fields whose names come before the given
\* name in ascending lexicographic order
RECURSIVE WidthsOfEarlierNames(_, _, _)
WidthsOfEarlierNames(fields, names, name) ==
    IF names = {} THEN 0
    ELSE LET other == CHOOSE x \in names : TRUE
         IN  (IF NameLess(other, name)
              THEN getSizeOfType(fields[other].type) ELSE 0)
                 + WidthsOfEarlierNames(fields, names \ {other}, name)

\* C33: Schema stream round trip.  For every prototype P with an identifier
\* other than 0x50 and any number of fields, fromSerializedFormat applied to
\* P.serializeFormat() succeeds and yields a prototype with the identifier,
\* the field names and kinds and the size() of P, whose offsets are the
\* prefix sums of the widths in ascending lexicographic name order.
C33_SchemaRoundTrip ==
    ( /\ op = "fromSerializedFormat"
      /\ userCall = serializeFormat(userProto)
      /\ userProto.identifier # RESERVED_ERROR_PROTOTYPE )
    => /\ ~userResult.isError
       /\ userResult.value.identifier = userProto.identifier
       /\ DOMAIN userResult.value.fields = DOMAIN userProto.fields
       /\ userResult.value.size = userProto.size
       /\ \A name \in DOMAIN userProto.fields :
             /\ userResult.value.fields[name].type
                    = userProto.fields[name].type
             /\ userResult.value.fields[name].offset
                    = WidthsOfEarlierNames(userProto.fields,
                                           DOMAIN userProto.fields, name)

\* a frame that, read from the channel on its own, is dispatched as the
\* message it was written from
DispatchedAlone(message) ==
    LET alone == listenOutcome(serialize(message), 0).called
    IN  /\ alone # <<>>
        /\ \A j \in 1..Len(alone) : alone[j].message = message

\* the first k messages of the list are the ones the calls delivered, in the
\* order of the list
DeliveredInOrder(calls, messages, k) ==
    /\ \A i \in 1..k : \E j \in 1..Len(calls) : calls[j].message = messages[i]
    /\ \A j \in 1..Len(calls) : \E i \in 1..k : calls[j].message = messages[i]
    /\ \A j1, j2 \in 1..Len(calls) :
          j1 <= j2 => \E i1, i2 \in 1..k :
                        /\ i1 <= i2
                        /\ calls[j1].message = messages[i1]
                        /\ calls[j2].message = messages[i2]

\* C34: No frame is lost in a burst.  When two or more well-formed frames of
\* registered schemas are in a DummyChannel at the engine's next read, each a
\* frame that would be dispatched if it were read alone, a listen() or tick()
\* dispatches the first frames of the burst as their own messages in send
\* order (a Response among them clearing its pending entry) and leaves the
\* frames it has not dispatched in the channel for the next read: none is
\* discarded and none is delivered as a different message.
C34_NoFrameLostInBurst ==
    [][ ( /\ op' \in {"listen", "tick"}
          /\ Len(outbox) >= 2
          /\ _data = serializeAll(outbox)
          /\ \A i \in 1..Len(outbox) : DispatchedAlone(outbox[i]) )
        => \E k \in 0..Len(outbox) :
             /\ DeliveredInOrder(called', outbox, k)
             /\ \A i \in 1..k :
                   outbox[i].header.type = RESPONSE
                     => outbox[i].header.messageNumber
                            \notin DOMAIN _acksNeeded'
             /\ Len(_data') >= 11 * (Len(outbox) - k)
             /\ SubSeq(_data', 1, 11 * (Len(outbox) - k))
                    = serializeAll(SubSeq(outbox, k + 1, Len(outbox)))
      ]_vars

\* C35: Only Responses acknowledge.  When listen() or tick() reads a
\* well-formed Request or Error frame whose message number is that of a
\* pending entry (the engine reading back its own Request on a loopback
\* channel), the receipt neither removes nor changes the entry: after
\* listen() the entry is as it was; after tick() it is as it was unless its
\* timer has elapsed, in which case it is retransmitted (one more retry, the
\* same message) or, its retries being used up, given up.
C35_OnlyResponsesAcknowledge ==
    [][ \A n \in DOMAIN _acksNeeded :
          ( /\ op' \in {"listen", "tick"}
            /\ \E t \in {REQUEST, ERROR}, P \in UserProtos :
                  _data = serialize(MessageOfPrototype(t, P, n)) )
          => \/ /\ n \in DOMAIN _acksNeeded'
                /\ _acksNeeded'[n] = _acksNeeded[n]
                /\ op' = "tick" => ~TimerElapsed(_acksNeeded[n])
             \/ /\ op' = "tick"
                /\ TimerElapsed(_acksNeeded[n]) /\ canRetry(_acksNeeded[n])
                /\ n \in DOMAIN _acksNeeded'
                /\ _acksNeeded'[n].message = _acksNeeded[n].message
                /\ _acksNeeded'[n].numRetries
                       = _acksNeeded[n].numRetries + 1
                /\ \E i \in 1..Len(sent') :
                      sent'[i] = _acksNeeded[n].message
             \/ /\ op' = "tick"
                /\ TimerElapsed(_acksNeeded[n]) /\ ~canRetry(_acksNeeded[n])
                /\ n \notin DOMAIN _acksNeeded'
      ]_vars

\* C36: Retransmissions are copies of the original.  An ack-required
\* sendMessage of a Request stores the message it writes; the stored message
\* of an entry never changes while the entry is pending, whatever the caller
\* does to its own Message object, unless a new ack-required sendMessage
\* re-arms the number; and the frames tick() writes are, byte for byte, those
\* of the stored messages of entries that were pending, one frame per entry
\* at most, while the step adds no entry, replaces no message and counts one
\* retry for each entry it retransmits and keeps.
C36_RetransmissionsAreCopies ==
    [][ /\ sendMessage(request, TRUE)
            => ( /\ request.header.messageNumber \in DOMAIN _acksNeeded'
                 /\ _acksNeeded'[request.header.messageNumber].message
                       = request
                 /\ _data' = _data \o serialize(request) )
        /\ ~sendMessage(request, TRUE)
            => \A k \in DOMAIN _acksNeeded \cap DOMAIN _acksNeeded' :
                  _acksNeeded'[k].message = _acksNeeded[k].message
        /\ op' = "tick"
            => /\ DOMAIN _acksNeeded' \subseteq DOMAIN _acksNeeded
               /\ \A i \in 1..Len(sent') :
                     LET k == sent'[i].header.messageNumber
                     IN  /\ k \in DOMAIN _acksNeeded
                         /\ sent'[i] = _acksNeeded[k].message
                         /\ k \in DOMAIN _acksNeeded'
                              => _acksNeeded'[k].numRetries
                                    = _acksNeeded[k].numRetries + 1
                         /\ \A j \in 1..Len(sent') :
                               sent'[j].header.messageNumber = k => j = i
               /\ _data' = serializeAll(sent')
      ]_vars

\* C36 witness: the request numbered 258 was sent with "id" = 7 and the
\* caller then stored 9 in its own object; a tick() has just retransmitted
\* the frame with 7 in it, as the first retry.
C36_Witness ==
    /\ op = "tick"
    /\ Len(sent) = 1
    /\ sent[1].header.messageNumber = 258
    /\ sent[1].buffer.data = <<7>>
    /\ request.header.messageNumber = 258
    /\ request.buffer.data = <<9>>
    /\ _data = <<82, 68, 83, 0, 0, 1, 2, 7, 69, 78, 68>>
    /\ 258 \in DOMAIN _acksNeeded
    /\ _acksNeeded[258].numRetries = 1
    /\ txCount[258] = 2
====
